---- MODULE Spec2Model ----
(***************************************************************************)
(* Verification model of noise2same.pytorch:                               *)
(*   - noise2same/fft_conv.py : to_ntuple, complex_matmul, fft_conv,       *)
(*                              _FFTConv.__init__                          *)
(*   - noise2same/network.py  : EncoderBlock / UNet construction and       *)
(*                              UNet.forward (shapes, channels, skips)     *)
(*   - noise2same/util.py     : load_checkpoint_to_module                  *)
(*                                                                         *)
(* Tensors of fft_conv are modelled for one batch element and one spatial  *)
(* axis (signal.ndim = 3, the FFTConv1d case): a signal is a sequence of   *)
(* channels, each a sequence of integers.  rfftn -> conjugate multiply ->  *)
(* irfftn is modelled by what it computes exactly (the circular            *)
(* cross-correlation over the transformed length), with integers in place  *)
(* of floats.                                                              *)
(***************************************************************************)
EXTENDS Integers, Sequences, FiniteSets, TLC

VARIABLES
    fc_args,      \* arguments of the fft_conv call under study
    fc_ret,       \* its outcome: [status, out]
    cv_args,      \* arguments of _FFTConv.__init__
    cv_obj,       \* the layer under construction: [status, attrs, weight, bias]
    un_cfg,       \* arguments of UNet.__init__
    un_pc,        \* position inside UNet.__init__
    un_loc,       \* its locals: loop index i, out_channels, raised error
    un_mod,       \* the sub-modules registered on the UNet so far
    fw,           \* the running UNet.forward call: position, x, encoder_outputs
    ld,           \* the running load_checkpoint_to_module call
    nm,           \* a Noise2Same forward_full / compute_losses_from_output call
    ru,           \* a ResidualUnit / ResidualBlock forward call
    ut,           \* a call of a util.py function
    ev            \* a run of evaluate.py's main

fft_vars == <<fc_args, fc_ret, cv_args, cv_obj>>

unet_vars == <<un_cfg, un_pc, un_loc, un_mod, fw>>

load_vars == <<ld>>

call_vars == <<nm, ru, ut, ev>>

vars == <<fc_args, fc_ret, cv_args, cv_obj, un_cfg, un_pc, un_loc, un_mod, fw, ld,
          nm, ru, ut, ev>>

----------------------------------------------------------------------------
(* Bounds of the explored inputs *)

MaxLen == 3        \* signal length n in 1..MaxLen
MaxKernel == 3     \* kernel size k in 1..MaxKernel
MaxPad == 1        \* integer padding p in 0..MaxPad
MaxStride == 2     \* stride s in 1..MaxStride
MaxVal == 1        \* tensor entries in 0..MaxVal
MaxCh == 2         \* channel counts in 1..MaxCh
MaxGroups == 2     \* groups in 1..MaxGroups
MaxDepth == 3      \* UNet depth and sequence lengths in 0..MaxDepth
MaxBlocks == 1     \* residual units per block in 0..MaxBlocks
MaxSize == 8       \* input spatial sizes in 1..MaxSize
MaxBase == 2       \* base_channels in 1..MaxBase
MaxState == 2      \* state values of checkpoint entries in 1..MaxState
MaxSamples == 2    \* samples of a test set, files of the planaria set, in 0..MaxSamples
MaxUnits == 2      \* block_size of a ResidualBlock called on its own, in 0..MaxUnits
MaxCrop == 5       \* size argument of center_crop, in 1..MaxCrop

----------------------------------------------------------------------------
(* Generic helpers *)

Min(a, b) == IF a < b THEN a ELSE b

Max(a, b) == IF a > b THEN a ELSE b

Zeros(n) == [i \in 1..n |-> 0]

RECURSIVE SumTo(_, _)
\* sum of f[i] for i in 1..n
SumTo(f, n) == IF n = 0 THEN 0 ELSE f[n] + SumTo(f, n - 1)

\* Argument forms: Python passes an int, an iterable or the string "same".
IntArg(v) == [tag |-> "int", val |-> <<v>>]

TupleArg(t) == [tag |-> "tuple", val |-> t]

SameArg == [tag |-> "same", val |-> <<>>]

NoneArg == [tag |-> "none", val |-> <<>>]

----------------------------------------------------------------------------
(* fft_conv.py *)

\* to_ntuple(val, n): an iterable must already have length n, an int is
\* repeated n times.
to_ntuple(val, n) ==
    IF val.tag = "tuple"
    THEN IF Len(val.val) = n
         THEN [ok |-> TRUE, out |-> val.val]
         ELSE [ok |-> FALSE, out |-> <<>>]
    ELSE [ok |-> TRUE, out |-> [i \in 1..n |-> val.val[1]]]

\* torch.nn.functional.pad on the last axis with non-negative amounts.
\* reflect needs each amount smaller than the axis length.
PadOk(x, left, right, mode) ==
    \/ mode = "constant"
    \/ mode = "replicate" /\ Len(x) >= 1
    \/ mode = "reflect" /\ left < Len(x) /\ right < Len(x)

Pad1d(x, left, right, mode) ==
    LET n == Len(x) IN
    [i \in 1..(n + left + right) |->
        IF i > left /\ i <= left + n THEN x[i - left]
        ELSE IF mode = "constant" THEN 0
        ELSE IF mode = "replicate" THEN (IF i <= left THEN x[1] ELSE x[n])
        ELSE (IF i <= left THEN x[left - i + 2] ELSE x[n - (i - left - n)])]

\* Mutant of PadRight: the zeros are put before the kernel.
PadRight_Left(x, r) ==
    IF r >= 0 THEN Zeros(r) \o x ELSE SubSeq(x, 1, Len(x) + r)

\* f.pad(kernel, [0, r]) with the default constant mode: a negative amount
\* crops instead of padding.
PadRight(x, r) ==
    IF r >= 0 THEN x \o Zeros(r) ELSE SubSeq(x, 1, Len(x) + r)

\* Length of irfftn(rfftn(.)) along the last axis: rfftn keeps L \div 2 + 1
\* bins and irfftn (no explicit size) returns 2 * (bins - 1) samples.
IrfftLen(L) == 2 * ((L \div 2 + 1) - 1)

\* Python's x[0:stop:step] on an axis of length len (step >= 1): the
\* normalised stop.
SliceStop(len, stop) ==
    IF stop < 0 THEN Max(stop + len, 0) ELSE Min(stop, len)

SliceLen(len, stop, step) == (SliceStop(len, stop) + step - 1) \div step

Slice(x, stop, step) ==
    [m \in 1..SliceLen(Len(x), stop, step) |-> x[(m - 1) * step + 1]]

\* complex_matmul's views: a.view(B, groups, -1, ...) and
\* b.view(groups, -1, C_in_kernel, ...) need the channel counts to split
\* evenly, and the einsum "agc..., gbc... -> agb..." needs both c extents
\* to agree.
MatmulOk(cin, cout, cink, groups) ==
    /\ cin % groups = 0
    /\ cout % groups = 0
    /\ cin \div groups = cink

\* Output channel o (1-based) of complex_matmul lies in group g and is the
\* b-th channel of that group; it contracts index c over the a-channels
\* (g, c), i.e. signal channel (g - 1) * (cin / groups) + c.
GroupOf(o, cout, groups) == (o - 1) \div (cout \div groups) + 1

SignalChannel(g, c, cin, groups) == (g - 1) * (cin \div groups) + c

\* One output sample of irfftn(signal_fr * conj(kernel_fr)): the circular
\* cross-correlation of the padded signal with the padded kernel, summed
\* over the contracted channels.
CorrAt(sig, ker, o, i, L, cin, cout, groups) ==
    LET g == GroupOf(o, cout, groups)
        perC == [c \in 1..(cin \div groups) |->
                   LET xs == sig[SignalChannel(g, c, cin, groups)]
                       ks == ker[o][c]
                   IN SumTo([j \in 1..L |-> xs[((i - 1 + j - 1) % L) + 1] * ks[j]], L)]
    IN SumTo(perC, cin \div groups)

complex_matmul(sig, ker, L, cin, cout, groups) ==
    [o \in 1..cout |->
        [i \in 1..IrfftLen(L) |-> CorrAt(sig, ker, o, i, L, cin, cout, groups)]]

\* Mutant of CropStop: the crop without the kernel-parity term.
CropStop_NoParity(signal_size, k) == signal_size - k + 1

\* The crop of fft_conv: slice(0, signal_size - k + k % 2, stride).
CropStop(signal_size, k) == signal_size - k + (k % 2)

\* The sizes fft_conv works with: the padded signal, the signal and the
\* kernel handed to rfftn, and the stop of the crop.
NoSizes == [signal_size |-> 0, fft_signal |-> 0, fft_kernel |-> 0, crop_stop |-> 0]

Failure(kind) == [status |-> kind, out |-> <<>>, sizes |-> NoSizes]

\* Mutant of SamePadding: the padding of an even kernel is one short.
SamePadding_Short(k) == (k - 1) \div 2

\* padding == "same": [k // 2 for k in kernel.shape[2:]].
SamePadding(k) == k \div 2

\* Mutant of EvenLength: no zero is appended.
EvenLength_AsIs(x) == x

\* signal.size(-1) % 2 != 0: f.pad(signal, [0, 1]).
EvenLength(x) == IF Len(x) % 2 # 0 THEN Pad1d(x, 0, 1, "constant") ELSE x

\* fft_conv(signal, kernel, bias, padding, stride, groups, padding_mode)
\* for signal.ndim = 3.  signal: C_in channels of length n; kernel: C_out x
\* C_in_kernel x k.
fft_conv(signal, kernel, bias, padding, stride, groups, padding_mode) ==
    LET cin == Len(signal)
        cout == Len(kernel)
        cink == Len(kernel[1])
        k == Len(kernel[1][1])
        stride_ == to_ntuple(stride, 1)
        padding_ == IF padding.tag = "same"
                    THEN [ok |-> TRUE, out |-> <<SamePadding(k)>>]
                    ELSE to_ntuple(padding, 1)
    IN
    IF ~stride_.ok \/ ~padding_.ok THEN Failure("ValueError")
    ELSE
    LET p == padding_.out[1]
        s == stride_.out[1]
    IN
    IF \E c \in 1..cin : ~PadOk(signal[c], p, p, padding_mode)
    THEN Failure("RuntimeError")
    ELSE
    LET padded == [c \in 1..cin |-> Pad1d(signal[c], p, p, padding_mode)]
        signal_size == Len(padded[1])
        sig == [c \in 1..cin |-> EvenLength(padded[c])]
        L == Len(sig[1])
        padded_kernel == [o \in 1..cout |->
                            [c \in 1..cink |-> PadRight(kernel[o][c], L - k)]]
    IN
    IF cink # cin THEN Failure("AssertionError")
    ELSE IF ~MatmulOk(cin, cout, cink, groups) THEN Failure("RuntimeError")
    ELSE
    LET output == complex_matmul(sig, padded_kernel, L, cin, cout, groups)
        cropped == [o \in 1..cout |-> Slice(output[o], CropStop(signal_size, k), s)]
        sizes == [signal_size |-> signal_size, fft_signal |-> L,
                  fft_kernel |-> Len(padded_kernel[1][1]),
                  crop_stop |-> CropStop(signal_size, k)]
    IN
    IF bias.tag = "none"
    THEN [status |-> "ok", out |-> cropped, sizes |-> sizes]
    ELSE IF Len(bias.val) # cout /\ Len(bias.val) # 1
    THEN Failure("RuntimeError")
    ELSE [status |-> "ok", sizes |-> sizes,
          out |-> [o \in 1..cout |->
                     [i \in 1..Len(cropped[o]) |->
                        cropped[o][i] + bias.val[IF Len(bias.val) = 1 THEN 1 ELSE o]]]]

\* Mutant of FFTConv_init: the out_channels divisibility check is missing.
FFTConv_init_NoOutCheck(a) ==
    LET ks == to_ntuple(a.kernel_size, a.ndim)
        unbuilt == [attrs |-> TRUE, has_weight |-> FALSE, weight |-> <<>>,
                    has_bias |-> FALSE]
    IN
    IF a.in_channels % a.groups # 0
    THEN [status |-> "ValueError", raised_by |-> "in_channels"] @@ unbuilt
    ELSE IF ~ks.ok
    THEN [status |-> "ValueError", raised_by |-> "to_ntuple"] @@ unbuilt
    ELSE [status |-> "ok", raised_by |-> "none", attrs |-> TRUE,
          has_weight |-> TRUE,
          weight |-> <<a.out_channels, a.in_channels \div a.groups>> \o ks.out,
          has_bias |-> a.bias]

\* _FFTConv.__init__(in_channels, out_channels, kernel_size, padding, stride,
\* groups, bias, ndim): the attributes are stored first, then the two
\* divisibility checks, then to_ntuple(kernel_size, ndim), then the weight
\* (C_out x C_in // groups x kernel_size) and the optional bias (C_out).
FFTConv_init(a) ==
    LET ks == to_ntuple(a.kernel_size, a.ndim)
        unbuilt == [attrs |-> TRUE, has_weight |-> FALSE, weight |-> <<>>,
                    has_bias |-> FALSE]
    IN
    IF a.in_channels % a.groups # 0
    THEN [status |-> "ValueError", raised_by |-> "in_channels"] @@ unbuilt
    ELSE IF a.out_channels % a.groups # 0
    THEN [status |-> "ValueError", raised_by |-> "out_channels"] @@ unbuilt
    ELSE IF ~ks.ok
    THEN [status |-> "ValueError", raised_by |-> "to_ntuple"] @@ unbuilt
    ELSE [status |-> "ok", raised_by |-> "none", attrs |-> TRUE,
          has_weight |-> TRUE,
          weight |-> <<a.out_channels, a.in_channels \div a.groups>> \o ks.out,
          has_bias |-> a.bias]

----------------------------------------------------------------------------
(* Explored inputs of fft_conv *)

PaddingModes == {"constant", "reflect", "replicate"}

\* Kernels of one (C_out, C_in_kernel) pair: a single tap of weight w at
\* index t (0-based), or all taps equal to w.
TapKernel(k, t, w) == [j \in 1..k |-> IF j = t + 1 THEN w ELSE 0]

FlatKernel(k, w) == [j \in 1..k |-> w]

KernelRows ==
    UNION {{TapKernel(k, t, w) : t \in 0..(k - 1), w \in 1..MaxVal}
           \cup {FlatKernel(k, w) : w \in 1..MaxVal} : k \in 1..MaxKernel}

Signals1 == UNION {[1..n -> 0..MaxVal] : n \in 1..MaxLen}

\* Single-channel calls: every signal, kernel row, padding, stride and mode.
SpatialCalls ==
    {[signal |-> <<x>>, kernel |-> <<<<kr>>>>, bias |-> NoneArg,
      padding |-> pd, stride |-> IntArg(s), groups |-> 1, padding_mode |-> m] :
        x \in Signals1, kr \in KernelRows,
        pd \in {IntArg(p) : p \in 0..MaxPad} \cup {SameArg},
        s \in 1..MaxStride, m \in PaddingModes}

\* Multi-channel calls: C_in signal channels of which the set `on` carries
\* the ramp <<1, 2>> and the others are zero; a C_out x C_in_kernel kernel
\* of unit taps; any groups; with or without bias.
ChannelSignal(cin, on) ==
    [c \in 1..cin |-> IF c \in on THEN <<1, 2>> ELSE <<0, 0>>]

UnitKernel(cout, cink) == [o \in 1..cout |-> [c \in 1..cink |-> <<1>>]]

BiasArgs(cout) ==
    {NoneArg} \cup {TupleArg([o \in 1..cout |-> w]) : w \in 1..MaxVal}

ChannelCallsOf(cin, cout) ==
    {[signal |-> ChannelSignal(cin, on), kernel |-> UnitKernel(cout, cink),
      bias |-> b, padding |-> IntArg(0), stride |-> IntArg(1),
      groups |-> g, padding_mode |-> "constant"] :
        on \in SUBSET (1..cin), cink \in 1..MaxCh, g \in 1..MaxGroups,
        b \in BiasArgs(cout)}

ChannelCalls ==
    UNION {ChannelCallsOf(cin, cout) : cin \in 1..MaxCh, cout \in 1..MaxCh}

\* Calls passing padding and stride as iterables (of the right or of a wrong
\* length).
TupleCalls ==
    {[signal |-> <<x>>, kernel |-> <<<<FlatKernel(2, 1)>>>>, bias |-> NoneArg,
      padding |-> pd, stride |-> st, groups |-> 1, padding_mode |-> "constant"] :
        x \in {<<1, 0, 1>>},
        pd \in {TupleArg(<<p>>) : p \in 0..MaxPad} \cup {TupleArg(<<0, 0>>), SameArg},
        st \in {TupleArg(<<s>>) : s \in 1..MaxStride} \cup {TupleArg(<<1, 1>>), IntArg(1)}}

FftCalls == SpatialCalls \cup ChannelCalls \cup TupleCalls

NoCall == [signal |-> <<>>, kernel |-> <<>>, bias |-> NoneArg, padding |-> NoneArg,
           stride |-> NoneArg, groups |-> 0, padding_mode |-> "none"]

Pending == [status |-> "pending", out |-> <<>>, sizes |-> NoSizes]

FftIdle == fc_args = NoCall /\ fc_ret = Pending

(* Explored constructor arguments of _FFTConv *)

KernelSizeArgs ==
    {IntArg(k) : k \in 1..MaxKernel}
    \cup {TupleArg([i \in 1..d |-> k]) : d \in 1..3, k \in 1..MaxKernel}

LayerArgs ==
    [in_channels : 1..MaxCh, out_channels : 1..MaxCh, kernel_size : KernelSizeArgs,
     groups : 1..MaxGroups, bias : BOOLEAN, ndim : 1..3]

NoLayerArgs == [in_channels |-> 0, out_channels |-> 0, kernel_size |-> NoneArg,
                groups |-> 0, bias |-> FALSE, ndim |-> 0]

NoLayer == [status |-> "pending", raised_by |-> "none", attrs |-> FALSE,
            has_weight |-> FALSE, weight |-> <<>>, has_bias |-> FALSE]

LayerIdle == cv_args = NoLayerArgs /\ cv_obj = NoLayer

----------------------------------------------------------------------------
(* network.py: tensors and layers by shape *)

RECURSIVE Pow2(_)
Pow2(n) == IF n <= 0 THEN 1 ELSE 2 * Pow2(n - 1)

\* A tensor is its channel count and its spatial shape (one batch element).
Tensor(ch, shape) == [ch |-> ch, shape |-> shape]

NoTensor == [ch |-> 0, shape |-> <<>>]

Ok(t) == [ok |-> TRUE, t |-> t]

Err == [ok |-> FALSE, t |-> NoTensor]

\* nn.Conv2d / nn.Conv3d: the input must have in_channels channels and the
\* padded input must cover the kernel on every axis.
Conv(t, cin, cout, k, pad, stride) ==
    IF t.ch = cin /\ \A a \in 1..Len(t.shape) : t.shape[a] + 2 * pad >= k
    THEN Ok(Tensor(cout, [a \in 1..Len(t.shape) |->
                             (t.shape[a] + 2 * pad - k) \div stride + 1]))
    ELSE Err

\* Mutant of ConvTranspose: the transposed convolution has kernel_size=3.
ConvTranspose_Kernel3(t, cin, cout) ==
    IF t.ch = cin
    THEN Ok(Tensor(cout, [a \in 1..Len(t.shape) |-> (t.shape[a] - 1) * 2 + 3]))
    ELSE Err

\* nn.ConvTranspose2d / 3d with kernel_size=2, stride=2.
ConvTranspose(t, cin, cout) ==
    IF t.ch = cin
    THEN Ok(Tensor(cout, [a \in 1..Len(t.shape) |-> (t.shape[a] - 1) * 2 + 2]))
    ELSE Err

\* nn.Upsample(scale_factor=2).
Upsample(t) == Tensor(t.ch, [a \in 1..Len(t.shape) |-> 2 * t.shape[a]])

\* nn.BatchNorm2d / 3d with num_features = c.
BatchNorm(t, c) == IF t.ch = c THEN Ok(t) ELSE Err

\* a + b with broadcasting: extents must agree or one of them be 1.
BroadcastDim(a, b) == IF a = 1 THEN b ELSE a

Add(a, b) ==
    IF /\ Len(a.shape) = Len(b.shape)
       /\ a.ch = b.ch \/ a.ch = 1 \/ b.ch = 1
       /\ \A i \in 1..Len(a.shape) :
             a.shape[i] = b.shape[i] \/ a.shape[i] = 1 \/ b.shape[i] = 1
    THEN Ok(Tensor(BroadcastDim(a.ch, b.ch),
                   [i \in 1..Len(a.shape) |-> BroadcastDim(a.shape[i], b.shape[i])]))
    ELSE Err

\* x.add_(skip): in place, so skip must broadcast to the shape of x.
AddInPlace(x, skip) ==
    IF /\ Len(x.shape) = Len(skip.shape)
       /\ skip.ch = x.ch \/ skip.ch = 1
       /\ \A i \in 1..Len(x.shape) : skip.shape[i] = x.shape[i] \/ skip.shape[i] = 1
    THEN Ok(x)
    ELSE Err

\* torch.cat([x, skip], dim=1): all spatial extents must agree.
Cat(x, skip) ==
    IF x.shape = skip.shape
    THEN Ok(Tensor(x.ch + skip.ch, x.shape))
    ELSE Err

\* stride = 2 if downsample else 1.
UnitStride(downsample) == IF downsample THEN 2 ELSE 1

\* Mutant of UsesProjection: only a change of channel count selects the
\* projection.
UsesProjection_ChannelsOnly(cin, cout, downsample) == cin # cout

\* The condition under which forward replaces the shortcut by conv_shortcut.
UsesProjection(cin, cout, downsample) == cin # cout \/ downsample

\* Which tensor forward adds to the main path: with FFC always the output
\* of conv_shortcut, without FFC the unit's input unless the projection
\* condition holds.
ShortcutKind(cin, cout, downsample, ffc) ==
    IF ffc THEN "projection"
    ELSE IF UsesProjection(cin, cout, downsample) THEN "projection" ELSE "identity"

\* The shortcut without FFC: t is the unit's input, x is act(bn(t));
\* conv_shortcut has kernel 1, padding 0 and the unit's stride.
ShortcutPath(t, x, cin, cout, downsample) ==
    IF ShortcutKind(cin, cout, downsample, FALSE) = "projection"
    THEN Conv(x, cin, cout, 1, 0, UnitStride(downsample))
    ELSE Ok(t)

\* self.layers without FFC: conv (kernel 2, padding 0 when downsampling,
\* else kernel k, padding k // 2), bn, act, conv (kernel k, padding k // 2).
MainPath(x, cin, cout, k, downsample) ==
    LET c1 == Conv(x, cin, cout, IF downsample THEN 2 ELSE k,
                   IF downsample THEN 0 ELSE k \div 2, UnitStride(downsample))
    IN
    IF ~c1.ok THEN Err
    ELSE
    LET b1 == BatchNorm(c1.t, cout) IN
    IF ~b1.ok THEN Err ELSE Conv(b1.t, cout, cout, k, k \div 2, 1)

\* ResidualUnit.forward without FFC: bn, act, optional projection shortcut
\* (kernel 1, the unit's stride), the two convolutions, then x + shortcut.
ResidualUnit(t, cin, cout, k, downsample) ==
    LET x1 == BatchNorm(t, cin) IN
    IF ~x1.ok THEN Err
    ELSE
    LET shortcut == ShortcutPath(t, x1.t, cin, cout, downsample)
        main == MainPath(x1.t, cin, cout, k, downsample)
    IN
    IF ~shortcut.ok \/ ~main.ok THEN Err ELSE Add(main.t, shortcut.t)

\* BN_ACT_FFC: the local output of the block has the shape of a convolution
\* with the same kernel, padding and stride.
BnActFfc(t, cin, cout, k, pad, stride) == Conv(t, cin, cout, k, pad, stride)

\* The shortcut with FFC: conv_shortcut(x)[0], kernel 1, the unit's stride.
FfcShortcutPath(t, cin, cout, downsample) ==
    BnActFfc(t, cin, cout, 1, 0, UnitStride(downsample))

\* self.layers with FFC: two blocks of kernel 3, padding 1, stride 1.
FfcMainPath(t, cin, cout) ==
    LET f1 == BnActFfc(t, cin, cout, 3, 1, 1) IN
    IF ~f1.ok THEN Err ELSE BnActFfc(f1.t, cout, cout, 3, 1, 1)

\* Arguments ResidualBlock.__init__ gives to unit i.
UnitArgs(i, cin, cout, downsample) ==
    [cin |-> IF i = 0 THEN cin ELSE cout, cout |-> cout,
     downsample |-> IF i = 0 THEN downsample ELSE FALSE]

\* ResidualBlock.forward: block_size units in sequence; only unit 0 takes
\* in_channels and the downsample flag.  An empty block returns its input.
RECURSIVE ResidualUnits(_, _, _, _, _, _, _)
ResidualUnits(t, i, block_size, cin, cout, k, downsample) ==
    IF i >= block_size THEN Ok(t)
    ELSE
    LET a == UnitArgs(i, cin, cout, downsample)
        r == ResidualUnit(t, a.cin, a.cout, k, a.downsample)
    IN IF ~r.ok THEN Err
       ELSE ResidualUnits(r.t, i + 1, block_size, cin, cout, k, downsample)

ResidualBlock(t, m, k) ==
    ResidualUnits(t, 0, m.block_size, m.cin, m.cout, k, m.downsample)

\* Sub-module descriptions registered by the constructors.
ResidualBlockModule(cin, cout, block_size, downsample) ==
    [kind |-> "res_block", cin |-> cin, cout |-> cout, block_size |-> block_size,
     downsample |-> downsample, mode |-> "none"]

EncoderBlockModule(cin, cout, block_size, downsampling) ==
    [kind |-> "encoder_block", cin |-> cin, cout |-> cout, block_size |-> block_size,
     downsample |-> TRUE, mode |-> downsampling]

ConvModule(cin, cout) ==
    [kind |-> "conv", cin |-> cin, cout |-> cout, block_size |-> 0,
     downsample |-> FALSE, mode |-> "none"]

ConvTransposeModule(cin, cout) ==
    [kind |-> "conv_transpose", cin |-> cin, cout |-> cout, block_size |-> 0,
     downsample |-> FALSE, mode |-> "none"]

UpsampleConvModule(cin, cout, mode) ==
    [kind |-> "upsample_conv", cin |-> cin, cout |-> cout, block_size |-> 0,
     downsample |-> FALSE, mode |-> mode]

IdentityModule ==
    [kind |-> "identity", cin |-> 0, cout |-> 0, block_size |-> 0,
     downsample |-> FALSE, mode |-> "none"]

\* EncoderBlock.__init__ accepts the downsampling names "res" and "conv".
EncoderBlockAccepts(downsampling) == downsampling \in {"res", "conv"}

\* EncoderBlock.forward (without FFC): the downsampling block, then a
\* ResidualBlock of block_size units at the new resolution.
EncoderBlock(t, m, k) ==
    LET d == IF m.mode = "res"
             THEN ResidualBlock(t, ResidualBlockModule(m.cin, m.cout, 1, TRUE), k)
             ELSE Conv(t, m.cin, m.cout, 2, 0, 2)
    IN IF ~d.ok THEN Err
       ELSE ResidualBlock(d.t, ResidualBlockModule(m.cout, m.cout, m.block_size, FALSE), k)

\* Mutant of UpsamplingIsInterpolation: the rank is not consulted.
UpsamplingIsInterpolation_AnyRank(name, n_dim) ==
    name \in {"nearest", "bilinear", "bicubic", "trilinear"}

\* UNet.__init__'s test of an upsampling name: "conv" selects the transposed
\* convolution, the interpolation modes depend on n_dim.
UpsamplingIsInterpolation(name, n_dim) ==
    \/ name \in {"nearest", "bilinear", "bicubic"} /\ n_dim = 2
    \/ name \in {"nearest", "trilinear"} /\ n_dim = 3

\* An upsampling block applied to x.
UpsamplingBlock(t, m, k) ==
    IF m.kind = "conv_transpose" THEN ConvTranspose(t, m.cin, m.cout)
    ELSE Conv(Upsample(t), m.cin, m.cout, k, k \div 2, 1)

\* conv_after_upsample: nn.Identity() or a same-size convolution.
ExtraConv(t, m, k) ==
    IF m.kind = "identity" THEN Ok(t) ELSE Conv(t, m.cin, m.cout, k, k \div 2, 1)

\* Mutant of SkipMethodAccepted: the assertion on skip_method is missing.
SkipMethodAccepted_NoCheck(skip_method) == TRUE

\* The skip methods UNet.__init__ asserts.
SkipMethodAccepted(skip_method) == skip_method \in {"add", "concat", "cat"}

\* Mutant of LastEncodingIsZero: the assertion is missing.
LastEncodingIsZero_NoCheck(sizes) == TRUE

\* assert encoding_block_sizes[-1] == 0
LastEncodingIsZero(sizes) == sizes[Len(sizes)] = 0

\* The assertions at the top of UNet.__init__, in order; "none" when all
\* pass.  encoding_block_sizes[0] on an empty sequence is an IndexError.
UNetValidation(c) ==
    IF c.depth # Len(c.encoding_block_sizes) THEN "AssertionError"
    ELSE IF Len(c.encoding_block_sizes) = 0 THEN "IndexError"
    ELSE IF ~(c.encoding_block_sizes[1] > 0) THEN "AssertionError"
    ELSE IF ~LastEncodingIsZero(c.encoding_block_sizes) THEN "AssertionError"
    ELSE IF c.depth # Len(c.decoding_block_sizes) + 1 THEN "AssertionError"
    ELSE IF c.depth # Len(c.downsampling) + 1 THEN "AssertionError"
    ELSE IF Len(c.downsampling) # Len(c.upsampling) THEN "AssertionError"
    ELSE IF ~SkipMethodAccepted(c.skip_method) THEN "AssertionError"
    ELSE "none"

NoModules ==
    [conv_first |-> <<>>, encoder_blocks |-> <<>>, bottom_block |-> <<>>,
     upsampling_blocks |-> <<>>, conv_after_upsample_blocks |-> <<>>,
     decoder_blocks |-> <<>>]

NoLocals == [i |-> 0, out_channels |-> 0, error |-> "none"]

NoCfg ==
    [in_channels |-> 0, base_channels |-> 0, kernel_size |-> 0, n_dim |-> 0,
     depth |-> 0, encoding_block_sizes |-> <<>>, decoding_block_sizes |-> <<>>,
     downsampling |-> <<>>, upsampling |-> <<>>, skip_method |-> "none",
     ffc |-> FALSE]

NoForward ==
    [pc |-> "idle", x |-> NoTensor, input |-> NoTensor, encoder_outputs |-> <<>>,
     i |-> 0, level |-> 0, fused |-> <<>>, error |-> "none"]

UNetIdle ==
    /\ un_cfg = NoCfg /\ un_pc = "idle" /\ un_loc = NoLocals
    /\ un_mod = NoModules /\ fw = NoForward

\* No load_checkpoint_to_module call.
NoLoad == [pc |-> "idle", module |-> <<>>, checkpoint |-> <<>>, i |-> 0,
           printed |-> <<>>, error |-> "none"]

LoadIdle == ld = NoLoad

\* No Noise2Same call.
NoModelCall == [pc |-> "idle", x |-> <<>>, mask |-> <<>>, full_size_image |-> <<>>,
                crop |-> 0, psf |-> <<>>, out_mask |-> <<>>, out_raw |-> <<>>,
                rec_mse |-> [sse |-> 0, n |-> 0], error |-> "none"]

\* No ResidualUnit call.
NoUnitCall == [pc |-> "idle", cin |-> 0, cout |-> 0, block_size |-> 0, k |-> 0,
               downsample |-> FALSE, ffc |-> FALSE, x |-> NoTensor, i |-> 0,
               units |-> <<>>]

\* No util.py call.
NoUtilCall == [pc |-> "idle"]

\* No run of evaluate.py.
NoEval == [pc |-> "idle", has_name |-> FALSE, name |-> "", n |-> 0, out_keys |-> {},
           dataset |-> FALSE, loader |-> FALSE, model |-> FALSE, evaluator |-> FALSE,
           mode |-> "none", i |-> 0, predictions |-> <<>>, scores |-> <<>>, files |-> {},
           events |-> <<>>, error |-> "none"]

CallsIdle == nm = NoModelCall /\ ru = NoUnitCall /\ ut = NoUtilCall /\ ev = NoEval

----------------------------------------------------------------------------
(* Specification of fft_conv calls *)

InitFft ==
    /\ fc_args \in FftCalls
    /\ fc_ret = Pending
    /\ LayerIdle
    /\ UNetIdle
    /\ LoadIdle /\ CallsIdle

\* One call of fft_conv with the drawn arguments.
CallFftConv ==
    /\ fc_ret.status = "pending"
    /\ fc_args # NoCall
    /\ fc_ret' = fft_conv(fc_args.signal, fc_args.kernel, fc_args.bias,
                          fc_args.padding, fc_args.stride, fc_args.groups,
                          fc_args.padding_mode)
    /\ UNCHANGED <<fc_args, cv_args, cv_obj>>
    /\ UNCHANGED <<unet_vars, load_vars, call_vars>>

NextFft == CallFftConv

SpecFft == InitFft /\ [][NextFft]_vars

(* Specification of _FFTConv construction *)

InitLayer ==
    /\ cv_args \in LayerArgs
    /\ cv_obj = NoLayer
    /\ FftIdle
    /\ UNetIdle
    /\ LoadIdle /\ CallsIdle

ConstructFFTConv ==
    /\ cv_obj.status = "pending"
    /\ cv_args # NoLayerArgs
    /\ cv_obj' = FFTConv_init(cv_args)
    /\ UNCHANGED <<cv_args, fc_args, fc_ret>>
    /\ UNCHANGED <<unet_vars, load_vars, call_vars>>

NextLayer == ConstructFFTConv

SpecLayer == InitLayer /\ [][NextLayer]_vars

----------------------------------------------------------------------------
(* Explored UNet configurations *)

Repeat(v, n) == [i \in 1..n |-> v]

\* encoding_block_sizes of the default shape (1, ..., 1, 0).
DefaultEncoding(depth) == [i \in 1..depth |-> IF i = depth THEN 0 ELSE 1]

\* The constructor's defaults, for a given depth.
DefaultCfg(depth) ==
    [in_channels |-> 1, base_channels |-> 1, kernel_size |-> 3, n_dim |-> 2,
     depth |-> depth,
     encoding_block_sizes |-> DefaultEncoding(depth),
     decoding_block_sizes |-> Repeat(1, depth - 1),
     downsampling |-> Repeat("conv", depth - 1),
     upsampling |-> Repeat("conv", depth - 1),
     skip_method |-> "concat", ffc |-> FALSE]

SkipNames == {"add", "concat", "cat", "sum"}

DownNames == {"res", "conv", "pool"}

UpNames == {"conv", "nearest", "bilinear", "trilinear", "linear"}

BlockSeqs == UNION {[1..l -> 0..MaxBlocks] : l \in 0..MaxDepth}

\* Any depth against any sequence lengths (names valid).
LengthCfgs ==
    {[DefaultCfg(d) EXCEPT !.encoding_block_sizes = enc,
                           !.decoding_block_sizes = Repeat(1, ldec),
                           !.downsampling = Repeat("conv", ldn),
                           !.upsampling = Repeat("conv", lup)] :
        d \in 0..MaxDepth, enc \in BlockSeqs, ldec \in 0..MaxDepth,
        ldn \in 0..MaxDepth, lup \in 0..MaxDepth}

\* Any method names at any position, for both ranks, with and without FFC.
NameCfgsOf(d) ==
    {[DefaultCfg(d) EXCEPT !.downsampling = dn, !.upsampling = up,
                           !.n_dim = nd, !.ffc = f] :
        dn \in [1..(d - 1) -> DownNames], up \in [1..(d - 1) -> UpNames],
        nd \in {2, 3}, f \in BOOLEAN}

NameCfgs == UNION {NameCfgsOf(d) : d \in 2..MaxDepth}

\* Any skip method, kernel size and base width; one downsampling and one
\* upsampling method for all levels.
ForwardCfgs ==
    {[DefaultCfg(d) EXCEPT !.skip_method = sk, !.kernel_size = k,
                           !.base_channels = b, !.n_dim = nd,
                           !.downsampling = Repeat(dn, d - 1),
                           !.upsampling = Repeat(up, d - 1)] :
        d \in 2..MaxDepth, sk \in SkipNames, k \in 1..MaxKernel, b \in 1..MaxBase,
        dn \in {"res", "conv"}, up \in {"conv", "nearest"}, nd \in {2, 3}}

\* Any decoder block sizes (zero included), for both fusion methods and both
\* kinds of upsampling.
BlockCfgsOf(d) ==
    {[DefaultCfg(d) EXCEPT !.decoding_block_sizes = dec, !.skip_method = sk,
                           !.upsampling = Repeat(up, d - 1)] :
        dec \in [1..(d - 1) -> 0..MaxBlocks], sk \in {"add", "concat"},
        up \in {"conv", "nearest"}}

BlockCfgs == UNION {BlockCfgsOf(d) : d \in 2..MaxDepth}

\* Input spatial shapes: all axes s, or the last axis MaxSize.
InputShapes(n_dim) ==
    UNION {{[a \in 1..n_dim |-> IF a = n_dim THEN t ELSE s] : t \in {s, MaxSize}} :
           s \in 1..MaxSize}

----------------------------------------------------------------------------
(* UNet.__init__, statement group by statement group *)

UNetFail(kind) ==
    /\ un_pc' = "failed"
    /\ un_loc' = [un_loc EXCEPT !.error = kind]
    /\ UNCHANGED <<un_cfg, un_mod, fw>>

\* The assertions on the configuration.
UNetValidate ==
    /\ un_pc = "new"
    /\ IF UNetValidation(un_cfg) # "none"
       THEN UNetFail(UNetValidation(un_cfg))
       ELSE /\ un_pc' = "head"
            /\ UNCHANGED <<un_cfg, un_loc, un_mod, fw>>
    /\ UNCHANGED <<fft_vars, load_vars, call_vars>>

\* conv_first and encoder_blocks[0].
UNetBuildHead ==
    /\ un_pc = "head"
    /\ un_mod' = [un_mod EXCEPT
          !.conv_first = <<ConvModule(un_cfg.in_channels, un_cfg.base_channels)>>,
          !.encoder_blocks =
              <<ResidualBlockModule(un_cfg.base_channels, un_cfg.base_channels,
                                    un_cfg.encoding_block_sizes[1], FALSE)>>]
    /\ un_loc' = [un_loc EXCEPT !.i = 2, !.out_channels = un_cfg.base_channels]
    /\ un_pc' = IF 2 <= un_cfg.depth THEN "encoder" ELSE "bottom"
    /\ UNCHANGED <<un_cfg, fw>>
    /\ UNCHANGED <<fft_vars, load_vars, call_vars>>

\* One iteration of `for i in range(2, self.depth + 1)`.
UNetBuildEncoder ==
    /\ un_pc = "encoder"
    /\ LET i == un_loc.i
           cin == un_cfg.base_channels * Pow2(i - 2)
           cout == un_cfg.base_channels * Pow2(i - 1)
       IN IF ~EncoderBlockAccepts(un_cfg.downsampling[i - 1])
          THEN UNetFail("ValueError")
          ELSE /\ un_mod' = [un_mod EXCEPT !.encoder_blocks =
                     Append(@, EncoderBlockModule(cin, cout,
                                                  un_cfg.encoding_block_sizes[i],
                                                  un_cfg.downsampling[i - 1]))]
               /\ un_loc' = [un_loc EXCEPT !.i = i + 1, !.out_channels = cout]
               /\ un_pc' = IF i + 1 <= un_cfg.depth THEN "encoder" ELSE "bottom"
               /\ UNCHANGED <<un_cfg, fw>>
    /\ UNCHANGED <<fft_vars, load_vars, call_vars>>

\* bottom_block.
UNetBuildBottom ==
    /\ un_pc = "bottom"
    /\ un_mod' = [un_mod EXCEPT !.bottom_block =
          <<ResidualBlockModule(un_loc.out_channels,
                                un_cfg.base_channels * Pow2(un_cfg.depth - 1),
                                1, FALSE)>>]
    /\ un_loc' = [un_loc EXCEPT !.i = un_cfg.depth - 1]
    /\ un_pc' = IF un_cfg.depth - 1 >= 1 THEN "decoder" ELSE "built"
    /\ UNCHANGED <<un_cfg, fw>>
    /\ UNCHANGED <<fft_vars, load_vars, call_vars>>

\* One iteration of `for i in range(self.depth - 1, 0, -1)`.
UNetBuildDecoder ==
    /\ un_pc = "decoder"
    /\ LET i == un_loc.i
           cin == un_cfg.base_channels * Pow2(i)
           cout == un_cfg.base_channels * Pow2(i - 1)
           name == un_cfg.upsampling[i]
           fused == IF un_cfg.skip_method # "add" THEN cin ELSE cout
           decoder == ResidualBlockModule(
                          cout * (IF un_cfg.skip_method # "add" THEN 2 ELSE 1), cout,
                          un_cfg.decoding_block_sizes[un_cfg.depth - i], FALSE)
           registered(up, extra) ==
               /\ un_mod' = [un_mod EXCEPT
                     !.upsampling_blocks = Append(@, up),
                     !.conv_after_upsample_blocks = Append(@, extra),
                     !.decoder_blocks = Append(@, decoder)]
               /\ un_loc' = [un_loc EXCEPT !.i = i - 1, !.out_channels = cout]
               /\ un_pc' = IF i - 1 >= 1 THEN "decoder" ELSE "built"
               /\ UNCHANGED <<un_cfg, fw>>
       IN IF name = "conv"
          THEN IF un_cfg.ffc
               THEN UNetFail("ValueError")
               ELSE registered(ConvTransposeModule(cin, cout), IdentityModule)
          ELSE IF UpsamplingIsInterpolation(name, un_cfg.n_dim)
          THEN registered(UpsampleConvModule(cin, cout, name),
                          ConvModule(fused, fused))
          ELSE UNetFail("ValueError")
    /\ UNCHANGED <<fft_vars, load_vars, call_vars>>

----------------------------------------------------------------------------
(* UNet.forward (without FFC), statement group by statement group *)

ForwardFail(kind) ==
    fw' = [fw EXCEPT !.pc = "failed", !.error = kind]

\* forward is called on a built model with an input of in_channels channels.
ForwardCall ==
    /\ un_pc = "built"
    /\ ~un_cfg.ffc
    /\ fw.pc = "idle"
    /\ \E shape \in InputShapes(un_cfg.n_dim) :
          fw' = [fw EXCEPT !.pc = "head",
                           !.x = Tensor(un_cfg.in_channels, shape),
                           !.input = Tensor(un_cfg.in_channels, shape)]
    /\ UNCHANGED <<un_cfg, un_pc, un_loc, un_mod>>
    /\ UNCHANGED <<fft_vars, load_vars, call_vars>>

\* x = conv_first(x); x = encoder_blocks[0](x).
ForwardHead ==
    /\ fw.pc = "head"
    /\ LET k == un_cfg.kernel_size
           c == un_mod.conv_first[1]
           r1 == Conv(fw.x, c.cin, c.cout, k, k \div 2, 1)
           r2 == IF r1.ok THEN ResidualBlock(r1.t, un_mod.encoder_blocks[1], k) ELSE Err
       IN IF ~r2.ok
          THEN ForwardFail("RuntimeError")
          ELSE fw' = [fw EXCEPT !.x = r2.t, !.i = 2, !.level = 0,
                         !.pc = IF Len(un_mod.encoder_blocks) >= 2
                                THEN "encoder" ELSE "bottom"]
    /\ UNCHANGED <<un_cfg, un_pc, un_loc, un_mod>>
    /\ UNCHANGED <<fft_vars, load_vars, call_vars>>

\* One iteration over encoder_blocks[1:]: record the skip, run the stage.
ForwardEncoder ==
    /\ fw.pc = "encoder"
    /\ LET r == EncoderBlock(fw.x, un_mod.encoder_blocks[fw.i], un_cfg.kernel_size)
           outs == Append(fw.encoder_outputs,
                          [t |-> fw.x, before_stage |-> fw.i - 1, level |-> fw.level])
       IN IF ~r.ok
          THEN fw' = [fw EXCEPT !.pc = "failed", !.error = "RuntimeError",
                                !.encoder_outputs = outs]
          ELSE fw' = [fw EXCEPT !.x = r.t, !.encoder_outputs = outs,
                         !.i = fw.i + 1, !.level = fw.level + 1,
                         !.pc = IF fw.i + 1 <= Len(un_mod.encoder_blocks)
                                THEN "encoder" ELSE "bottom"]
    /\ UNCHANGED <<un_cfg, un_pc, un_loc, un_mod>>
    /\ UNCHANGED <<fft_vars, load_vars, call_vars>>

\* Number of iterations of the zip over the decoder-side lists.
DecoderStages ==
    Min(Min(Len(un_mod.upsampling_blocks), Len(un_mod.decoder_blocks)),
        Min(Len(fw.encoder_outputs), Len(un_mod.conv_after_upsample_blocks)))

\* x = bottom_block(x).
ForwardBottom ==
    /\ fw.pc = "bottom"
    /\ LET r == ResidualBlock(fw.x, un_mod.bottom_block[1], un_cfg.kernel_size)
       IN IF ~r.ok
          THEN ForwardFail("RuntimeError")
          ELSE fw' = [fw EXCEPT !.x = r.t, !.i = 1,
                         !.pc = IF DecoderStages >= 1 THEN "decoder" ELSE "done"]
    /\ UNCHANGED <<un_cfg, un_pc, un_loc, un_mod>>
    /\ UNCHANGED <<fft_vars, load_vars, call_vars>>

\* Mutant of SkipFor: the skips are zipped in recording order.
SkipFor_Unreversed(encoder_outputs, j) == encoder_outputs[j]

\* The skip zipped with decoder iteration j (1-based): element j of
\* encoder_outputs[::-1].
SkipFor(encoder_outputs, j) == encoder_outputs[Len(encoder_outputs) - j + 1]

\* The fusion of the upsampled x with a skip tensor.
Fuse(x, skip, skip_method) ==
    IF skip_method = "add" THEN AddInPlace(x, skip)
    ELSE IF skip_method \in {"cat", "concat"} THEN Cat(x, skip)
    ELSE Err

\* One iteration of the decoder loop: upsample, fuse with
\* encoder_outputs[::-1][i], conv_after_upsample, decoder block.
ForwardDecoder ==
    /\ fw.pc = "decoder"
    /\ LET k == un_cfg.kernel_size
           j == fw.i
           skip == SkipFor(fw.encoder_outputs, j)
           up == UpsamplingBlock(fw.x, un_mod.upsampling_blocks[j], k)
           fused == IF up.ok THEN Fuse(up.t, skip.t, un_cfg.skip_method) ELSE Err
           extra == IF fused.ok
                    THEN ExtraConv(fused.t, un_mod.conv_after_upsample_blocks[j], k)
                    ELSE Err
           dec == IF extra.ok THEN ResidualBlock(extra.t, un_mod.decoder_blocks[j], k)
                  ELSE Err
           entry == [stage |-> j - 1, skip_stage |-> skip.before_stage,
                     skip_level |-> skip.level, level |-> fw.level - 1,
                     skip_shape |-> skip.t.shape,
                     shape |-> IF up.ok THEN up.t.shape ELSE <<>>,
                     fused_ok |-> fused.ok,
                     fused_ch |-> IF fused.ok THEN fused.t.ch ELSE 0,
                     extra_ok |-> extra.ok,
                     extra_ch |-> IF extra.ok THEN extra.t.ch ELSE 0]
       IN IF ~up.ok
          THEN ForwardFail("RuntimeError")
          ELSE IF un_cfg.skip_method \notin {"add", "cat", "concat"}
          THEN ForwardFail("ValueError")
          ELSE IF ~dec.ok
          THEN fw' = [fw EXCEPT !.pc = "failed", !.error = "RuntimeError",
                                !.fused = Append(@, entry)]
          ELSE fw' = [fw EXCEPT !.x = dec.t, !.i = j + 1, !.level = fw.level - 1,
                         !.fused = Append(@, entry),
                         !.pc = IF j + 1 <= DecoderStages THEN "decoder" ELSE "done"]
    /\ UNCHANGED <<un_cfg, un_pc, un_loc, un_mod>>
    /\ UNCHANGED <<fft_vars, load_vars, call_vars>>

----------------------------------------------------------------------------
(* Specifications of the UNet *)

UNetNew(cfgs) ==
    /\ un_cfg \in cfgs
    /\ un_pc = "new"
    /\ un_loc = NoLocals
    /\ un_mod = NoModules
    /\ fw = NoForward
    /\ FftIdle /\ LayerIdle /\ LoadIdle /\ CallsIdle

\* Construction over the configurations that probe the argument checks.
InitUNetBuild == UNetNew(LengthCfgs \cup NameCfgs)

NextUNetBuild ==
    \/ UNetValidate
    \/ UNetBuildHead
    \/ UNetBuildEncoder
    \/ UNetBuildBottom
    \/ UNetBuildDecoder

SpecUNetBuild == InitUNetBuild /\ [][NextUNetBuild]_vars

\* Construction followed by one forward call.
InitUNet == UNetNew(ForwardCfgs \cup BlockCfgs)

NextUNet ==
    \/ UNetValidate
    \/ UNetBuildHead
    \/ UNetBuildEncoder
    \/ UNetBuildBottom
    \/ UNetBuildDecoder
    \/ ForwardCall
    \/ ForwardHead
    \/ ForwardEncoder
    \/ ForwardBottom
    \/ ForwardDecoder

SpecUNet == InitUNet /\ [][NextUNet]_vars

----------------------------------------------------------------------------
(* util.py: load_checkpoint_to_module *)

\* The attribute names a checkpoint may carry.
Attrs == {"model", "optimizer", "scheduler"}

\* What getattr(module, attr) finds: nothing, a sub-module with
\* load_state_dict, or an object without that method.
AttrKinds == {"absent", "module", "plain"}

\* The modules: every attribute has a kind; a sub-module holds state 0.
Modules == {[a \in Attrs |-> [kind |-> kd[a], state |-> 0]] : kd \in [Attrs -> AttrKinds]}

\* The checkpoints: dictionaries in insertion order, so no key twice.
Checkpoints ==
    {c \in UNION {[1..n -> [attr : Attrs, state_dict : 1..MaxState]] : n \in 0..Cardinality(Attrs)} :
        \A m, n \in 1..Len(c) : m # n => c[m].attr # c[n].attr}

\* The exception raised by getattr(module, attr).load_state_dict(state_dict).
LoadRaises(module, attr) ==
    IF module[attr].kind = "module" THEN "none" ELSE "AttributeError"

\* Mutant of Caught: the loop has no except clause.
Caught_Nothing(exc) == FALSE

\* except AttributeError
Caught(exc) == exc = "AttributeError"

InitLoad ==
    /\ ld \in {[NoLoad EXCEPT !.pc = "loop", !.module = m, !.checkpoint = c, !.i = 1] :
                  m \in Modules, c \in Checkpoints}
    /\ FftIdle /\ LayerIdle /\ UNetIdle /\ CallsIdle

\* One iteration of the loop over checkpoint.items().
LoadEntry ==
    /\ ld.pc = "loop"
    /\ ld.i <= Len(ld.checkpoint)
    /\ LET entry == ld.checkpoint[ld.i]
           exc == LoadRaises(ld.module, entry.attr)
       IN  IF exc = "none"
           THEN ld' = [ld EXCEPT !.module[entry.attr].state = entry.state_dict,
                                 !.i = @ + 1]
           ELSE IF Caught(exc)
           THEN ld' = [ld EXCEPT !.printed = Append(@, entry.attr), !.i = @ + 1]
           ELSE ld' = [ld EXCEPT !.pc = "failed", !.error = exc]
    /\ UNCHANGED <<fft_vars, unet_vars, call_vars>>

\* The loop is exhausted and the function returns.
LoadReturn ==
    /\ ld.pc = "loop"
    /\ ld.i > Len(ld.checkpoint)
    /\ ld' = [ld EXCEPT !.pc = "done"]
    /\ UNCHANGED <<fft_vars, unet_vars, call_vars>>

NextLoad == LoadEntry \/ LoadReturn

SpecLoad == InitLoad /\ [][NextLoad]_vars

----------------------------------------------------------------------------
(* model.py: Noise2Same with arch="identity", after the specification's
   forward and loss contracts; the PSF convolution is fft_conv *)

\* The identity-passthrough backbone.
IdentityBackbone(x) == x

\* The PSF applied to a single-channel image: fft_conv with padding="same"
\* and the mode psf_pad_mode="constant".
PsfConv(x, psf) ==
    fft_conv(<<x>>, <<<<psf>>>>, NoneArg, SameArg, IntArg(1), 1, "constant")

\* Squared error summed over the pixels the mask selects, and their count;
\* the mean is their quotient.
MaskedMse(a, b, mask) ==
    [sse |-> SumTo([i \in 1..Len(a) |-> mask[i] * (a[i] - b[i]) * (a[i] - b[i])], Len(a)),
     n |-> SumTo(mask, Len(mask))]

\* np.pad(image, padding): the full-size image is the tile with zero margins.
FullSizeImage(x, margin_start, margin_end) == Zeros(margin_start) \o x \o Zeros(margin_end)

\* The PSF of the test: zeros with a 1 at flat index psf_size // 2.
IdentityPsf(k) == TapKernel(k, k \div 2, 1)

Masks(n) == [1..n -> {0, 1}]

ModelCallsOf(x) ==
    {[NoModelCall EXCEPT !.pc = "called", !.x = x, !.mask = mk,
                         !.full_size_image = FullSizeImage(x, ms, me),
                         !.crop = ms, !.psf = IdentityPsf(k)] :
        mk \in Masks(Len(x)), ms \in 0..1, me \in 0..1, k \in 1..MaxKernel}

ModelCalls == UNION {ModelCallsOf(x) : x \in Signals1}

InitModel ==
    /\ nm \in ModelCalls
    /\ ru = NoUnitCall /\ ut = NoUtilCall /\ ev = NoEval
    /\ FftIdle /\ LayerIdle /\ UNetIdle /\ LoadIdle

\* forward_full(x, mask, crops, full_size_image): both backbone passes, then
\* the PSF on both predictions.
ForwardFull ==
    /\ nm.pc = "called"
    /\ LET raw == PsfConv(IdentityBackbone(nm.full_size_image), nm.psf)
           msk == PsfConv(IdentityBackbone(nm.x), nm.psf)
       IN  IF raw.status # "ok" \/ msk.status # "ok"
           THEN nm' = [nm EXCEPT !.pc = "failed", !.error = "RuntimeError"]
           ELSE nm' = [nm EXCEPT !.pc = "forwarded", !.out_raw = raw.out[1],
                                 !.out_mask = msk.out[1]]
    /\ UNCHANGED <<fft_vars, unet_vars, load_vars, ru, ut, ev>>

\* compute_losses_from_output(x, mask, out_mask, out_raw): rec_mse compares
\* the masked prediction with the input at the masked pixels; a shape
\* mismatch is fatal.
ComputeLosses ==
    /\ nm.pc = "forwarded"
    /\ IF Len(nm.out_mask) # Len(nm.x)
       THEN nm' = [nm EXCEPT !.pc = "failed", !.error = "RuntimeError"]
       ELSE nm' = [nm EXCEPT !.pc = "done",
                             !.rec_mse = MaskedMse(nm.out_mask, nm.x, nm.mask)]
    /\ UNCHANGED <<fft_vars, unet_vars, load_vars, ru, ut, ev>>

NextModel == ForwardFull \/ ComputeLosses

SpecModel == InitModel /\ [][NextModel]_vars

----------------------------------------------------------------------------
(* util.py: normalize_min_mse *)

\* Exact fractions; a zero denominator stands for numpy's nan or inf.
Rat(n, d) == [num |-> n, den |-> d]

RatDiv(p, q) == Rat(p.num * q.den, p.den * q.num)

RatEq(p, q) == p.num * q.den = q.num * p.den

RatDefined(p) == p.den # 0

\* x - np.mean(x), every entry scaled by N = len(x) to stay integral.
Centered(x) == [i \in 1..Len(x) |-> Len(x) * x[i] - SumTo(x, Len(x))]

DotProduct(a, b) == SumTo([i \in 1..Len(a) |-> a[i] * b[i]], Len(a))

\* np.cov(a, b)[0, 1] of mean-free N-scaled samples: the default ddof=1
\* divides the sum of products by N - 1.
np_cov(a, b) == Rat(DotProduct(a, b), Len(a) * Len(a) * (Len(a) - 1))

\* np.var(a) of mean-free N-scaled samples: the default ddof=0 divides the
\* sum of squares by N.
np_var(a) == Rat(DotProduct(a, a), Len(a) * Len(a) * Len(a))

\* normalize_min_mse(gt, x, normalize_gt=False): the mean-free pair and the
\* scale applied to x.
normalize_min_mse(gt, x) ==
    LET x_ == Centered(x)
        gt_ == Centered(gt)
    IN  [gt |-> gt_, x |-> x_, scale |-> RatDiv(np_cov(x_, gt_), np_var(x_))]

NormalizeCalls ==
    UNION {{[pc |-> "called", gt |-> g, x |-> x, ret |-> <<>>] :
               g \in [1..n -> 0..MaxVal], x \in [1..n -> 0..MaxVal]} : n \in 1..MaxLen}

InitNormalize ==
    /\ ut \in NormalizeCalls
    /\ nm = NoModelCall /\ ru = NoUnitCall /\ ev = NoEval
    /\ FftIdle /\ LayerIdle /\ UNetIdle /\ LoadIdle

CallNormalize ==
    /\ ut.pc = "called"
    /\ ut' = [ut EXCEPT !.pc = "done", !.ret = normalize_min_mse(ut.gt, ut.x)]
    /\ UNCHANGED <<fft_vars, unet_vars, load_vars, nm, ru, ev>>

NextNormalize == CallNormalize

SpecNormalize == InitNormalize /\ [][NextNormalize]_vars

----------------------------------------------------------------------------
(* util.py: crop_as, calculate_scores *)

\* Array shapes of one or two axes.
Shapes == UNION {[1..d -> 1..MaxLen] : d \in 1..2}

RECURSIVE ProductTo(_, _)
ProductTo(f, n) == IF n = 0 THEN 1 ELSE f[n] * ProductTo(f, n - 1)

\* np.array(x.shape) - np.array(gt.shape): shapes of equal rank subtract
\* axis by axis, a rank-1 shape broadcasts against the other.
ShapeDiff(xs, gs) ==
    IF Len(xs) = Len(gs) THEN [ok |-> TRUE, out |-> [i \in 1..Len(xs) |-> xs[i] - gs[i]]]
    ELSE IF Len(gs) = 1 THEN [ok |-> TRUE, out |-> [i \in 1..Len(xs) |-> xs[i] - gs[1]]]
    ELSE IF Len(xs) = 1 THEN [ok |-> TRUE, out |-> [i \in 1..Len(gs) |-> xs[1] - gs[i]]]
    ELSE [ok |-> FALSE, out |-> <<>>]

\* crop_as(x, gt) on shapes: the shape of the crop, or the exception.  Both
\* assertions carry no message.
crop_as(xs, gs) ==
    LET diff == ShapeDiff(xs, gs) IN
    IF ~diff.ok THEN [status |-> "ValueError", shape |-> <<>>]
    ELSE IF \E i \in 1..Len(diff.out) : diff.out[i] < 0
    THEN [status |-> "AssertionError", shape |-> <<>>]
    ELSE
    LET top_left == [i \in 1..Len(diff.out) |-> diff.out[i] \div 2]
        bottom_right == [i \in 1..Len(diff.out) |-> diff.out[i] - top_left[i]]
        nsl == Min(Len(diff.out), Len(xs))
        crop == [i \in 1..Len(xs) |->
                   IF i <= nsl
                   THEN Max(0, Min(xs[i], xs[i] - bottom_right[i]) - top_left[i])
                   ELSE xs[i]]
    IN  IF crop # gs
        THEN [status |-> "AssertionError", shape |-> <<>>]
        ELSE [status |-> "ok", shape |-> crop]

\* Mutant of ShapesAgree: the element counts are compared.
ShapesAgree_BySize(gs, xs) == ProductTo(gs, Len(gs)) = ProductTo(xs, Len(xs))

\* gt.shape == x_.shape
ShapesAgree(gs, xs) == gs = xs

NoMessage == [gt |-> <<>>, x |-> <<>>]

\* calculate_scores(gt, x, ..., normalize_pairs, scale, clip, ..., prefix,
\* calculate_mi, crop) on shapes: the processing steps performed in order,
\* the keys of the returned record, or the exception and the shapes its
\* message reports.
calculate_scores(a) ==
    LET cropped == IF a.crop THEN crop_as(a.x, a.gt) ELSE [status |-> "ok", shape |-> a.x]
        s0 == IF a.crop THEN <<"crop">> ELSE <<>>
    IN
    IF cropped.status # "ok"
    THEN [status |-> cropped.status, raised_by |-> "crop_as", message |-> NoMessage,
          steps |-> <<>>, keys |-> {}]
    ELSE IF ~ShapesAgree(a.gt, cropped.shape)
    THEN [status |-> "AssertionError", raised_by |-> "calculate_scores",
          message |-> [gt |-> a.gt, x |-> cropped.shape], steps |-> s0, keys |-> {}]
    ELSE
    LET s1 == IF a.scale THEN Append(s0, "scale") ELSE s0
        s2 == IF a.normalize_pairs THEN Append(s1, "normalize") ELSE s1
        s3 == IF a.clip THEN Append(s2, "clip") ELSE s2
        prefix == IF a.prefix # "" THEN a.prefix \o "." ELSE a.prefix
        metrics == {prefix \o "rmse", prefix \o "psnr", prefix \o "ssim"}
        s4 == Append(s3, "metrics")
    IN  IF a.calculate_mi
        THEN [status |-> "ok", raised_by |-> "none", message |-> NoMessage,
              steps |-> Append(s4, "mi"),
              keys |-> metrics \cup {prefix \o "mi", prefix \o "smi"}]
        ELSE [status |-> "ok", raised_by |-> "none", message |-> NoMessage,
              steps |-> s4, keys |-> metrics]

ScoreCalls ==
    {[pc |-> "called",
      args |-> [gt |-> gs, x |-> xs, normalize_pairs |-> np, scale |-> sc, clip |-> cl,
                prefix |-> pf, calculate_mi |-> mi, crop |-> cr],
      ret |-> <<>>] :
        gs \in Shapes, xs \in Shapes, np \in BOOLEAN, sc \in BOOLEAN, cl \in BOOLEAN,
        pf \in {"", "val"}, mi \in BOOLEAN, cr \in BOOLEAN}

InitScores ==
    /\ ut \in ScoreCalls
    /\ nm = NoModelCall /\ ru = NoUnitCall /\ ev = NoEval
    /\ FftIdle /\ LayerIdle /\ UNetIdle /\ LoadIdle

CallCalculateScores ==
    /\ ut.pc = "called"
    /\ ut' = [ut EXCEPT !.pc = "returned", !.ret = calculate_scores(ut.args)]
    /\ UNCHANGED <<fft_vars, unet_vars, load_vars, nm, ru, ev>>

NextScores == CallCalculateScores

SpecScores == InitScores /\ [][NextScores]_vars

----------------------------------------------------------------------------
(* util.py: center_crop.  An array is its shape; the crop is, per axis, the
   sequence of 0-based indices the slice selects. *)

\* size: int = 63
DefaultSize == 63

\* The indices slice(start, stop) selects on an axis of length d, for
\* non-negative start and stop.
SliceIndices(start, stop, d) ==
    LET a == Min(start, d)
        b == Min(stop, d)
    IN [j \in 1..Max(b - a, 0) |-> a + j - 1]

\* center_crop(x, size) on an array of the given shape.
center_crop(shape, size) ==
    LET h == size \div 2 IN
    [a \in 1..Len(shape) |->
        SliceIndices(Max(0, shape[a] \div 2 - h),
                     Min(shape[a] \div 2 + h + 1, shape[a]), shape[a])]

\* Explored calls: arrays of one or two axes, small sizes and the default.
CropCalls ==
    {[pc |-> "called", shape |-> sh, size |-> sz, out |-> <<>>] :
        sh \in {<<d>> : d \in 1..MaxSize} \cup
               {<<d, e>> : d \in 1..MaxSize, e \in 1..MaxSize},
        sz \in 1..MaxCrop \cup {DefaultSize}}

InitCrop ==
    /\ ut \in CropCalls
    /\ nm = NoModelCall /\ ru = NoUnitCall /\ ev = NoEval
    /\ FftIdle /\ LayerIdle /\ UNetIdle /\ LoadIdle

CallCenterCrop ==
    /\ ut.pc = "called"
    /\ ut' = [ut EXCEPT !.pc = "returned", !.out = center_crop(ut.shape, ut.size)]
    /\ UNCHANGED <<fft_vars, unet_vars, load_vars, nm, ru, ev>>

NextCrop == CallCenterCrop

SpecCrop == InitCrop /\ [][NextCrop]_vars

----------------------------------------------------------------------------
(* evaluate.py: main.  Evaluator, the dataset getters and Noise2Same are
   outside src/: Evaluator loads its checkpoint at construction and its two
   inference methods return one prediction per sample, as the specification
   describes them. *)

\* Experiment names: the five supported ones, one differing only in case and
\* one unknown.
Names == {"bsd68", "hanzi", "imagenet", "microtubules", "planaria", "BSD68", "cifar"}

\* cfg.name.lower()
Lower(name) == IF name = "BSD68" THEN "bsd68" ELSE name

\* Line 35: the names whose test set comes from get_test_dataset_and_gt.
NeedsDataset(name) == name \notin {"planaria"}

\* Line 40: the names for which a DataLoader is created.
NeedsLoader(name) == Lower(name) \in {"bsd68", "imagenet", "hanzi"}

\* Mutant of InferenceMode: the dispatch compares the lower-cased name.
InferenceMode_Lower(name) ==
    IF Lower(name) \in {"bsd68", "hanzi", "imagenet"} THEN "batched"
    ELSE IF name \in {"microtubules"} THEN "single"
    ELSE IF name \in {"planaria"} THEN "files"
    ELSE "unsupported"

\* Lines 70-96: the inference dispatch.
InferenceMode(name) ==
    IF name \in {"bsd68", "hanzi", "imagenet"} THEN "batched"
    ELSE IF name \in {"microtubules"} THEN "single"
    ELSE IF name \in {"planaria"} THEN "files"
    ELSE "unsupported"

\* Line 99: the names whose predictions are rearranged.
NeedsRearrange(name) == name \notin {"planaria", "microtubules"}

\* The keys of the records Evaluator.inference returns.
OutKeySets == {{"image"}, {"image", "deconv"}}

\* Evaluator.inference(loader): one record per sample of the loader.
EvaluatorInference(n, keys) == [j \in 1..n |-> [k \in keys |-> [sample |-> j, key |-> k]]]

\* Evaluator.inference_single_image_dataset(dataset): one array.
EvaluatorInferenceSingle(item, c) == [sample |-> item, key |-> c]

\* Line 100: List[Dict[str, array]] -> Dict[str, List[array]], keyed by the
\* keys of the first record.
Rearrange(predictions) ==
    IF Len(predictions) = 0 THEN [ok |-> FALSE, out |-> <<>>]
    ELSE [ok |-> TRUE,
          out |-> [k \in DOMAIN predictions[1] |->
                     [j \in 1..Len(predictions) |-> predictions[j][k]]]]

EvalRuns ==
    {[NoEval EXCEPT !.pc = "start", !.has_name = TRUE, !.name = nme, !.n = n,
                    !.out_keys = ks] : nme \in Names, n \in 0..MaxSamples, ks \in OutKeySets}
    \cup {[NoEval EXCEPT !.pc = "start"]}

InitEval ==
    /\ ev \in EvalRuns
    /\ nm = NoModelCall /\ ru = NoUnitCall /\ ut = NoUtilCall
    /\ FftIdle /\ LayerIdle /\ UNetIdle /\ LoadIdle

EvalUnchanged == UNCHANGED <<fft_vars, unet_vars, load_vars, nm, ru, ut>>

EvalRaise(kind) == ev' = [ev EXCEPT !.pc = "failed", !.error = kind]

\* Lines 24-26.
EvalCheckName ==
    /\ ev.pc = "start"
    /\ ev' = [ev EXCEPT !.pc = IF ev.has_name THEN "load_data" ELSE "returned"]
    /\ EvalUnchanged

\* Lines 34-48: the test set and the loader.
EvalLoadData ==
    /\ ev.pc = "load_data"
    /\ ev' = [ev EXCEPT !.pc = "build_model",
                        !.dataset = NeedsDataset(ev.name),
                        !.loader = NeedsLoader(ev.name),
                        !.events = IF NeedsDataset(ev.name)
                                   THEN Append(@, "get_test_dataset_and_gt") ELSE @]
    /\ EvalUnchanged

\* Lines 50-64.
EvalBuildModel ==
    /\ ev.pc = "build_model"
    /\ ev' = [ev EXCEPT !.pc = "build_evaluator", !.model = TRUE,
                        !.events = Append(@, "Noise2Same")]
    /\ EvalUnchanged

\* Line 69: Evaluator(mdl, checkpoint_path=...) loads the checkpoint.
EvalBuildEvaluator ==
    /\ ev.pc = "build_evaluator"
    /\ ev' = [ev EXCEPT !.pc = "inference", !.evaluator = TRUE,
                        !.events = Append(@, "load_checkpoint")]
    /\ EvalUnchanged

\* Lines 70-96, except the loop over the planaria files.
EvalInference ==
    /\ ev.pc = "inference"
    /\ LET mode == InferenceMode(ev.name) IN
       IF mode = "batched"
       THEN ev' = [ev EXCEPT !.pc = "rearrange", !.mode = "batched_inference",
                             !.predictions = EvaluatorInference(ev.n, ev.out_keys),
                             !.events = Append(@, "batched_inference")]
       ELSE IF mode = "single"
       THEN ev' = [ev EXCEPT !.pc = "rearrange", !.mode = "tiled_inference",
                             !.predictions = EvaluatorInferenceSingle(1, "image"),
                             !.events = Append(@, "tiled_inference")]
       ELSE IF mode = "files"
       THEN ev' = [ev EXCEPT !.pc = "files", !.i = 1, !.mode = "tiled_inference",
                             !.predictions = [k \in {"c1", "c2", "c3", "y"} |-> <<>>]]
       ELSE EvalRaise("ValueError")
    /\ EvalUnchanged

\* Lines 86-94: one planaria file; its ground truth, then its three channels.
EvalPlanariaFile ==
    /\ ev.pc = "files"
    /\ IF ev.i > ev.n
       THEN ev' = [ev EXCEPT !.pc = "rearrange"]
       ELSE ev' = [ev EXCEPT
               !.i = @ + 1,
               !.predictions =
                   [k \in {"c1", "c2", "c3", "y"} |->
                      IF k = "y" THEN Append(@[k], [sample |-> ev.i, key |-> "gt"])
                      ELSE Append(@[k], EvaluatorInferenceSingle(ev.i, k))],
               !.events = @ \o <<"get_planaria_dataset_and_gt", "tiled_inference",
                                 "tiled_inference", "tiled_inference">>]
    /\ EvalUnchanged

\* Lines 98-100.
EvalRearrange ==
    /\ ev.pc = "rearrange"
    /\ IF NeedsRearrange(ev.name)
       THEN LET r == Rearrange(ev.predictions) IN
            IF r.ok THEN ev' = [ev EXCEPT !.pc = "scores", !.predictions = r.out]
            ELSE EvalRaise("IndexError")
       ELSE ev' = [ev EXCEPT !.pc = "scores"]
    /\ EvalUnchanged

\* Mutant of EvalScores: the results are saved before the scores are
\* computed.
EvalScores_SaveFirst ==
    /\ ev.pc = "scores"
    /\ LET count == IF ev.name \in {"bsd68", "hanzi", "imagenet"}
                    THEN Min(ev.n, Len(ev.predictions["image"]))
                    ELSE IF ev.name \in {"microtubules"} THEN 1
                    ELSE 3 * Min(Len(ev.predictions["y"]), Len(ev.predictions["c1"]))
       IN  ev' = [ev EXCEPT !.pc = "save",
                            !.scores = [j \in 1..count |-> "score"],
                            !.events = @ \o <<"scores.csv", "predictions.npz">>
                                         \o [j \in 1..count |-> "calculate_scores"]]
    /\ EvalUnchanged

\* Lines 102-138: one calculate_scores call per pair.
EvalScores ==
    /\ ev.pc = "scores"
    /\ LET count == IF ev.name \in {"bsd68", "hanzi", "imagenet"}
                    THEN Min(ev.n, Len(ev.predictions["image"]))
                    ELSE IF ev.name \in {"microtubules"} THEN 1
                    ELSE 3 * Min(Len(ev.predictions["y"]), Len(ev.predictions["c1"]))
       IN  IF ev.name \in {"bsd68", "hanzi", "imagenet", "microtubules", "planaria"}
           THEN ev' = [ev EXCEPT !.pc = "save",
                                 !.scores = [j \in 1..count |-> "score"],
                                 !.events = @ \o [j \in 1..count |-> "calculate_scores"]]
           ELSE EvalRaise("ValueError")
    /\ EvalUnchanged

\* Lines 140-143.  For microtubules scores is one record of scalars and
\* predictions one array: whether pd.DataFrame and np.savez accept them is
\* left open.
EvalSave ==
    /\ ev.pc = "save"
    /\ \/ ev' = [ev EXCEPT !.pc = "summary",
                           !.files = {"scores.csv", "predictions.npz"},
                           !.events = @ \o <<"scores.csv", "predictions.npz">>]
       \/ /\ ev.name = "microtubules"
          /\ EvalRaise("ValueError")
    /\ EvalUnchanged

\* Lines 145-150.
EvalSummary ==
    /\ ev.pc = "summary"
    /\ ev' = [ev EXCEPT !.pc = "done"]
    /\ EvalUnchanged

NextEval ==
    \/ EvalCheckName
    \/ EvalLoadData
    \/ EvalBuildModel
    \/ EvalBuildEvaluator
    \/ EvalInference
    \/ EvalPlanariaFile
    \/ EvalRearrange
    \/ EvalScores
    \/ EvalSave
    \/ EvalSummary

SpecEval == InitEval /\ [][NextEval]_vars

----------------------------------------------------------------------------
(* Specification of ResidualBlock.forward, one ResidualUnit at a time *)

\* What one ResidualUnit.forward does with input t: the tensor it takes as
\* shortcut, the output of self.layers, and their sum.
UnitForward(t, a, k, ffc) ==
    LET x1 == IF ffc THEN Ok(t) ELSE BatchNorm(t, a.cin)
        shortcut == IF ~x1.ok THEN Err
                    ELSE IF ffc THEN FfcShortcutPath(t, a.cin, a.cout, a.downsample)
                    ELSE ShortcutPath(t, x1.t, a.cin, a.cout, a.downsample)
        main == IF ~x1.ok THEN Err
                ELSE IF ffc THEN FfcMainPath(t, a.cin, a.cout)
                ELSE MainPath(x1.t, a.cin, a.cout, k, a.downsample)
    IN  [cin |-> a.cin, cout |-> a.cout, downsample |-> a.downsample, ffc |-> ffc,
         kind |-> ShortcutKind(a.cin, a.cout, a.downsample, ffc),
         input |-> t, shortcut |-> shortcut, main |-> main,
         out |-> IF ~shortcut.ok \/ ~main.ok THEN Err
                 ELSE IF ffc THEN Add(main.t, shortcut.t)
                 ELSE ResidualUnit(t, a.cin, a.cout, k, a.downsample)]

\* Explored blocks and inputs: two spatial axes (n_dim = 2).
BlockCalls ==
    {[pc |-> "block", cin |-> cin, cout |-> cout, block_size |-> m, k |-> k,
      downsample |-> d, ffc |-> f, x |-> Tensor(ch, <<h, w>>), i |-> 0,
      units |-> <<>>] :
        cin \in 1..MaxCh, cout \in 1..MaxCh, m \in 0..MaxUnits, k \in 1..MaxKernel,
        d \in BOOLEAN, f \in BOOLEAN, ch \in 1..MaxCh, h \in 1..MaxSize, w \in 2..4}

InitBlock ==
    /\ ru \in BlockCalls
    /\ nm = NoModelCall /\ ut = NoUtilCall /\ ev = NoEval
    /\ FftIdle /\ LayerIdle /\ UNetIdle /\ LoadIdle

\* nn.Sequential calls the next unit; an exception of the unit ends the call.
BlockForwardUnit ==
    /\ ru.pc = "block"
    /\ ru.i < ru.block_size
    /\ LET u == UnitForward(ru.x, UnitArgs(ru.i, ru.cin, ru.cout, ru.downsample),
                            ru.k, ru.ffc)
       IN ru' = [ru EXCEPT !.units = Append(@, u),
                           !.i = @ + 1,
                           !.x = IF u.out.ok THEN u.out.t ELSE @,
                           !.pc = IF u.out.ok THEN "block" ELSE "failed"]
    /\ UNCHANGED <<fft_vars, unet_vars, load_vars, nm, ut, ev>>

\* nn.Sequential has no unit left and returns x.
BlockReturn ==
    /\ ru.pc = "block"
    /\ ru.i = ru.block_size
    /\ ru' = [ru EXCEPT !.pc = "done"]
    /\ UNCHANGED <<fft_vars, unet_vars, load_vars, nm, ut, ev>>

NextBlock == BlockForwardUnit \/ BlockReturn

SpecBlock == InitBlock /\ [][NextBlock]_vars

----------------------------------------------------------------------------
(* Properties of fft_conv and _FFTConv *)

FcCalled == fc_ret.status # "pending"

FcCin == Len(fc_args.signal)

FcCout == Len(fc_args.kernel)

FcCinKernel == Len(fc_args.kernel[1])

FcN == Len(fc_args.signal[1])

FcK == Len(fc_args.kernel[1][1])

\* The integer padding and stride of the call (defined when the call passes
\* an int or a 1-tuple).
FcPad == fc_args.padding.val[1]

FcStride == fc_args.stride.val[1]

\* Spatial size of torch's direct convolution.
DirectConvSize(n, k, p, s) == (n + 2 * p - k) \div s + 1

\* C1: whenever fft_conv returns for an integer padding p with n + 2p >= k,
\* every output channel has the spatial size of the direct convolution,
\* floor((n + 2p - k) / s) + 1, for even and for odd kernel sizes.
C1_OutputSizeEqualsDirectConv ==
    (/\ fc_ret.status = "ok"
     /\ fc_args.padding.tag \in {"int", "tuple"}
     /\ FcN + 2 * FcPad >= FcK)
    => \A o \in 1..FcCout :
          Len(fc_ret.out[o]) = DirectConvSize(FcN, FcK, FcPad, FcStride)

\* The call's padding and stride arguments are usable: they cast to one
\* entry per spatial axis and the padding mode can pad that much.
FcArgsUsable ==
    /\ fc_args.stride.tag \in {"int", "tuple"} /\ Len(fc_args.stride.val) = 1
    /\ fc_args.padding.tag = "same" \/ Len(fc_args.padding.val) = 1
    /\ LET p == IF fc_args.padding.tag = "same" THEN FcK \div 2 ELSE FcPad
       IN \A c \in 1..FcCin : PadOk(fc_args.signal[c], p, p, fc_args.padding_mode)

\* The signal with every channel outside group g replaced by zeros.
OnlyGroup(signal, g, groups) ==
    LET per == Len(signal) \div groups IN
    [c \in 1..Len(signal) |->
        IF (c - 1) \div per + 1 = g THEN signal[c] ELSE Zeros(Len(signal[c]))]

\* C2: for a kernel of shape C_out x (C_in / G) x k with C_in and C_out
\* divisible by G, the call completes and output channel o of group g is
\* what the call returns when only the input channels of group g are kept.
C2_GroupedCallCompletesAndIsolates ==
    (/\ FcCalled
     /\ FcArgsUsable
     /\ FcCin % fc_args.groups = 0
     /\ FcCout % fc_args.groups = 0
     /\ FcCinKernel = FcCin \div fc_args.groups)
    => /\ fc_ret.status = "ok"
       /\ \A o \in 1..FcCout :
             fc_ret.out[o] =
                fft_conv(OnlyGroup(fc_args.signal,
                                   GroupOf(o, FcCout, fc_args.groups),
                                   fc_args.groups),
                         fc_args.kernel, fc_args.bias, fc_args.padding,
                         fc_args.stride, fc_args.groups,
                         fc_args.padding_mode).out[o]

LayerBuilt == cv_obj.status # "pending"

LayerDivisible ==
    /\ cv_args.in_channels % cv_args.groups = 0
    /\ cv_args.out_channels % cv_args.groups = 0

\* kernel_size is an int or an iterable with one entry per spatial axis.
KernelSizeFitsNdim ==
    cv_args.kernel_size.tag = "int" \/ Len(cv_args.kernel_size.val) = cv_args.ndim

\* C3 as stated: construction raises ValueError and produces no weights
\* exactly when a channel count is not divisible by groups; when both are
\* divisible it succeeds.
C3_DivisibilityAloneDecides ==
    LayerBuilt =>
        /\ ~LayerDivisible => cv_obj.status = "ValueError" /\ ~cv_obj.has_weight
        /\ LayerDivisible => cv_obj.status = "ok" /\ cv_obj.has_weight

\* C3 amended: construction raises ValueError and produces no weights
\* whenever a channel count is not divisible by groups; when both are
\* divisible it succeeds provided kernel_size is an int or has ndim entries,
\* and raises ValueError (from to_ntuple, still without weights) otherwise.
C3_DivisibilityThenKernelSize ==
    LayerBuilt =>
        /\ ~LayerDivisible =>
              /\ cv_obj.status = "ValueError"
              /\ cv_obj.raised_by \in {"in_channels", "out_channels"}
              /\ ~cv_obj.has_weight
        /\ LayerDivisible /\ KernelSizeFitsNdim =>
              /\ cv_obj.status = "ok"
              /\ cv_obj.has_weight
              /\ Len(cv_obj.weight) = 2 + cv_args.ndim
              /\ cv_obj.weight[1] = cv_args.out_channels
              /\ cv_obj.weight[2] * cv_args.groups = cv_args.in_channels
        /\ LayerDivisible /\ ~KernelSizeFitsNdim =>
              /\ cv_obj.status = "ValueError"
              /\ cv_obj.raised_by = "to_ntuple"
              /\ ~cv_obj.has_weight

\* A construction rejected only because out_channels is not divisible.
C3_Witness ==
    /\ cv_obj.status = "ValueError"
    /\ cv_args.in_channels % cv_args.groups = 0
    /\ cv_args.out_channels % cv_args.groups # 0
    /\ KernelSizeFitsNdim
    /\ ~cv_obj.has_weight

\* A single-channel call with the identity kernel (1 at tap k // 2),
\* padding="same", stride 1, constant padding mode, no bias.
IdentityCall ==
    /\ FcCin = 1 /\ FcCout = 1 /\ FcCinKernel = 1
    /\ fc_args.kernel[1][1] = TapKernel(FcK, FcK \div 2, 1)
    /\ fc_args.padding = SameArg
    /\ fc_args.stride \in {IntArg(1), TupleArg(<<1>>)}
    /\ fc_args.groups = 1
    /\ fc_args.bias = NoneArg
    /\ fc_args.padding_mode = "constant"

\* C4: an identity-kernel call with padding="same" returns the signal
\* unchanged, for every signal length and kernel size.
C4_IdentityKernelReturnsSignal ==
    (FcCalled /\ IdentityCall) =>
        /\ fc_ret.status = "ok"
        /\ fc_ret.out = fc_args.signal

\* An identity call on an even-length, non-constant signal with an even
\* kernel has returned.
C4_Witness ==
    /\ FcCalled /\ IdentityCall
    /\ FcN % 2 = 0 /\ FcK % 2 = 0
    /\ fc_args.signal[1][1] # fc_args.signal[1][FcN]
    /\ fc_ret.out = fc_args.signal

----------------------------------------------------------------------------
(* Properties of UNet construction and forward *)

\* __init__ has passed its assertions / has ended.
UNetValidated == un_pc \notin {"idle", "new"}

UNetEnded == un_pc \in {"built", "failed"}

ForwardEnded == fw.pc \in {"done", "failed"}

\* The configurations C5 lists.
C5_Listed(c) ==
    \/ c.depth # Len(c.encoding_block_sizes)
    \/ Len(c.encoding_block_sizes) > 0 /\ c.encoding_block_sizes[1] = 0
    \/ /\ Len(c.encoding_block_sizes) > 0
       /\ c.encoding_block_sizes[Len(c.encoding_block_sizes)] # 0
    \/ Len(c.decoding_block_sizes) # c.depth - 1
    \/ Len(c.downsampling) # c.depth - 1
    \/ Len(c.upsampling) # Len(c.downsampling)

\* C5: for every listed configuration the constructor fails in its checks
\* and no sub-module has been created.
C5_ListedConfigFailsBeforeBuilding ==
    (UNetValidated /\ C5_Listed(un_cfg)) =>
        /\ un_pc = "failed"
        /\ un_loc.error \in {"AssertionError", "IndexError"}
        /\ un_mod = NoModules

\* A construction rejected only for encoding_block_sizes[-1] != 0.
C5_Witness ==
    /\ un_pc = "failed" /\ un_mod = NoModules
    /\ un_cfg.depth = 3 /\ Len(un_cfg.encoding_block_sizes) = 3
    /\ un_cfg.encoding_block_sizes[1] > 0
    /\ un_cfg.encoding_block_sizes[3] # 0
    /\ Len(un_cfg.decoding_block_sizes) = 2
    /\ Len(un_cfg.downsampling) = 2 /\ Len(un_cfg.upsampling) = 2

\* The C6 configuration: concat fusion, "conv" down- and upsampling at
\* every level.
C6_Config ==
    /\ un_cfg.skip_method = "concat"
    /\ \A i \in 1..Len(un_cfg.downsampling) : un_cfg.downsampling[i] = "conv"
    /\ \A i \in 1..Len(un_cfg.upsampling) : un_cfg.upsampling[i] = "conv"

InputDivisible ==
    \A a \in 1..Len(fw.input.shape) : fw.input.shape[a] % Pow2(un_cfg.depth - 1) = 0

\* C6 as stated: every forward call of such a UNet returns an output with
\* the input's spatial shape.
C6_EveryInputSizePreserved ==
    (C6_Config /\ ForwardEnded) =>
        /\ fw.pc = "done"
        /\ fw.x.shape = fw.input.shape

\* C6 amended: a forward call that returns has preserved the spatial shape;
\* it raises whenever an input size is not a multiple of 2^(depth - 1); it
\* returns for multiples when kernel_size is odd and no decoder block is
\* empty.
C6_ShapePreservedForDivisibleSizes ==
    (C6_Config /\ ForwardEnded) =>
        /\ fw.pc = "done" => fw.x.shape = fw.input.shape
        /\ ~InputDivisible => fw.pc = "failed" /\ fw.error = "RuntimeError"
        /\ (/\ InputDivisible
            /\ un_cfg.kernel_size % 2 = 1
            /\ \A i \in 1..Len(un_cfg.decoding_block_sizes) :
                  un_cfg.decoding_block_sizes[i] >= 1)
           => fw.pc = "done"

\* A depth-3 forward on a non-square input has returned.
C6_Witness ==
    /\ C6_Config /\ fw.pc = "done"
    /\ un_cfg.depth = 3
    /\ fw.input.shape = <<4, 8>>
    /\ fw.x.shape = <<4, 8>>

\* C7: once the encoder has run, depth - 1 skips are recorded, the s-th
\* before encoder stage s; decoder stage j is paired with the skip recorded
\* before encoder stage depth - 1 - j, taken at the resolution level of the
\* upsampled tensor; a completed forward has used each skip exactly once.
C7_SkipsConsumedInReverse ==
    /\ fw.pc \in {"bottom", "decoder", "done"} =>
          /\ Len(fw.encoder_outputs) = un_cfg.depth - 1
          /\ \A s \in 1..Len(fw.encoder_outputs) :
                /\ fw.encoder_outputs[s].before_stage = s
                /\ fw.encoder_outputs[s].level = s - 1
    /\ \A n \in 1..Len(fw.fused) :
          /\ fw.fused[n].stage = n - 1
          /\ fw.fused[n].skip_stage = un_cfg.depth - 1 - fw.fused[n].stage
          /\ fw.fused[n].skip_level = fw.fused[n].level
    /\ fw.pc = "done" =>
          /\ Len(fw.fused) = un_cfg.depth - 1
          /\ \A s \in 1..(un_cfg.depth - 1) :
                Cardinality({n \in 1..Len(fw.fused) : fw.fused[n].skip_stage = s}) = 1
          /\ \A n \in 1..Len(fw.fused) : fw.fused[n].skip_shape = fw.fused[n].shape

\* A depth-3 forward has returned after fusing skip 2, then skip 1.
C7_Witness ==
    /\ fw.pc = "done" /\ un_cfg.depth = 3
    /\ Len(fw.encoder_outputs) = 2
    /\ Len(fw.fused) = 2
    /\ fw.fused[1].skip_stage = 2
    /\ fw.fused[2].skip_stage = 1

\* The method names C8 calls unsupported.
C8_BadDownsampling(c) ==
    \E i \in 1..Len(c.downsampling) : c.downsampling[i] \notin {"res", "conv"}

C8_SupportedUpsampling(n_dim) ==
    IF n_dim = 2 THEN {"conv", "nearest", "bilinear", "bicubic"}
    ELSE {"conv", "nearest", "trilinear"}

C8_BadUpsampling(c) ==
    \E i \in 1..Len(c.upsampling) : c.upsampling[i] \notin C8_SupportedUpsampling(c.n_dim)

\* C8: with an unsupported name at any position the constructor never
\* completes: it is still running or has raised, and a forward call is
\* never started on such a model.
C8_BadNameFailsConstruction ==
    (C8_BadDownsampling(un_cfg) \/ C8_BadUpsampling(un_cfg)) =>
        /\ un_pc \in {"new", "head", "encoder", "bottom", "decoder", "failed"}
        /\ un_pc = "failed" =>
              un_loc.error \in {"ValueError", "AssertionError", "IndexError"}
        /\ un_pc # "failed" => ENABLED NextUNetBuild
        /\ fw.pc = "idle"

\* The constructor raised ValueError on the last name it inspects, after
\* every other block was registered.
C8_Witness ==
    /\ un_pc = "failed" /\ un_loc.error = "ValueError"
    /\ un_cfg.depth = 3
    /\ ~C8_BadDownsampling(un_cfg)
    /\ un_cfg.upsampling[2] \in C8_SupportedUpsampling(un_cfg.n_dim)
    /\ un_cfg.upsampling[1] \notin C8_SupportedUpsampling(un_cfg.n_dim)
    /\ ~un_cfg.ffc
    /\ Len(un_mod.upsampling_blocks) = 1

\* C9 as stated: every skip_method outside {add, concat} fails
\* construction, and forward never raises its unsupported-skip ValueError.
C9_OnlyAddAndConcatAccepted ==
    /\ (UNetValidated /\ un_cfg.skip_method \notin {"add", "concat"}) =>
          un_pc = "failed"
    /\ fw.error # "ValueError"

\* C9 amended: the accepted skip methods are exactly add, concat and cat:
\* construction fails in its assertions, before any sub-module exists, for
\* every other value and passes them for these three; forward never raises
\* its unsupported-skip ValueError.
C9_AddConcatCatAccepted ==
    /\ UNetValidated =>
          /\ un_cfg.skip_method \notin {"add", "concat", "cat"} =>
                /\ un_pc = "failed"
                /\ un_loc.error = "AssertionError"
                /\ un_mod = NoModules
          /\ un_cfg.skip_method \in {"add", "concat", "cat"} => un_pc # "failed"
    /\ fw.error # "ValueError"

\* A UNet built with skip_method "cat" has completed a forward call.
C9_Witness ==
    /\ un_cfg.skip_method = "cat"
    /\ un_pc = "built"
    /\ fw.pc = "done"
    /\ Len(fw.fused) = un_cfg.depth - 1

----------------------------------------------------------------------------
(* Properties of load_checkpoint_to_module *)

\* The entries the loop has finished with.
Processed == 1..(ld.i - 1)

----------------------------------------------------------------------------
(* Properties of the Noise2Same identity scenario *)

----------------------------------------------------------------------------
(* Properties of normalize_min_mse *)

\* The least-squares slope sum((x - mx)(gt - mg)) / sum((x - mx)^2) of the
\* returned pair.
LeastSquaresSlope == Rat(DotProduct(ut.ret.x, ut.ret.gt), DotProduct(ut.ret.x, ut.ret.x))

\* C12: for N >= 2 samples with a non-constant x, the scale applied to the
\* mean-removed x is the least-squares slope, cov(x, gt) / var(x) under one
\* normalisation.
C12_ScaleIsLeastSquaresSlope ==
    (/\ ut.pc = "done"
     /\ Len(ut.x) >= 2
     /\ RatDefined(LeastSquaresSlope)) =>
        /\ RatDefined(ut.ret.scale)
        /\ RatEq(ut.ret.scale, LeastSquaresSlope)

----------------------------------------------------------------------------
(* Properties of calculate_scores *)

ProcessingSteps == {"scale", "normalize", "clip", "metrics", "mi"}

StepsDone == {ut.ret.steps[i] : i \in 1..Len(ut.ret.steps)}

ExpectedKeys ==
    LET names == {"rmse", "psnr", "ssim"} \cup
                 (IF ut.args.calculate_mi THEN {"mi", "smi"} ELSE {})
    IN  IF ut.args.prefix = "" THEN names
        ELSE {ut.args.prefix \o "." \o n : n \in names}

----------------------------------------------------------------------------
(* Properties of evaluate.py *)

EventsAt(names) == {i \in 1..Len(ev.events) : ev.events[i] \in names}

InferenceEvents == EventsAt({"batched_inference", "tiled_inference"})

ScoreEvents == EventsAt({"calculate_scores"})

WriteEvents == EventsAt({"scores.csv", "predictions.npz"})

SupportedNames == {"bsd68", "hanzi", "imagenet", "microtubules", "planaria"}

LoaderNames == {"bsd68", "hanzi", "imagenet"}

Recognised == ev.has_name /\ ev.name \in SupportedNames

Before(I, J) == \A i \in I, j \in J : i < j

\* The scores a complete run computes: one per sample, one for the single
\* microtubules image, three per planaria file.
ExpectedScores ==
    IF ev.name \in LoaderNames THEN ev.n
    ELSE IF ev.name = "microtubules" THEN 1
    ELSE 3 * ev.n

\* C14: in a run with a recognised name the checkpoint is loaded at most
\* once, and once as soon as the evaluator exists, before every inference
\* call; the run enters exactly one of the two inference modes and every
\* inference call is of that mode; all inference calls precede all score
\* computations; the two files are written after every score, and only in
\* a run whose scores are all computed.
C14_LoadInferScoreWriteInOrder ==
    Recognised =>
        /\ Cardinality(EventsAt({"load_checkpoint"})) = (IF ev.evaluator THEN 1 ELSE 0)
        /\ Before(EventsAt({"load_checkpoint"}), InferenceEvents)
        /\ InferenceEvents # {} => ev.evaluator
        /\ ev.pc \in {"rearrange", "files", "scores", "save", "summary", "done"} =>
              ev.mode \in {"batched_inference", "tiled_inference"}
        /\ \A i \in InferenceEvents : ev.events[i] = ev.mode
        /\ Before(InferenceEvents, ScoreEvents)
        /\ Before(InferenceEvents \cup ScoreEvents, WriteEvents)
        /\ ScoreEvents # {} => ev.pc \in {"save", "summary", "done", "failed"}
        /\ (WriteEvents # {} \/ ev.files # {}) =>
              /\ ev.pc \in {"summary", "done"}
              /\ Cardinality(ScoreEvents) = ExpectedScores
              /\ ev.files = {"scores.csv", "predictions.npz"}
        /\ ev.pc = "done" => ev.files = {"scores.csv", "predictions.npz"}

\* A planaria run over two files has ended: six tiled inference calls, six
\* scores, both files.
C14_Witness ==
    /\ ev.pc = "done" /\ ev.name = "planaria" /\ ev.n = 2
    /\ Cardinality(InferenceEvents) = 6
    /\ Cardinality(ScoreEvents) = 6
    /\ ev.files = {"scores.csv", "predictions.npz"}

PredictionsFinal == ev.pc \in {"scores", "save", "summary", "done"}

\* C15: a loader-based run never fails in the rearrangement, also with zero
\* samples, and its rearranged predictions hold, under every output key,
\* one entry per sample in sample order; a planaria run's lists c1, c2, c3
\* and y each hold one entry per file, entry i belonging to file i.
C15_OneEntryPerSample ==
    /\ (ev.has_name /\ ev.name \in LoaderNames) =>
          /\ ev.error # "IndexError"
          /\ PredictionsFinal =>
                /\ DOMAIN ev.predictions = ev.out_keys
                /\ \A k \in ev.out_keys :
                      /\ Len(ev.predictions[k]) = ev.n
                      /\ \A j \in 1..ev.n : ev.predictions[k][j] = [sample |-> j, key |-> k]
    /\ (ev.has_name /\ ev.name = "planaria" /\ PredictionsFinal) =>
          \A k \in {"c1", "c2", "c3", "y"} :
              /\ Len(ev.predictions[k]) = ev.n
              /\ \A j \in 1..ev.n : ev.predictions[k][j].sample = j

\* C19: a run whose name matches no supported dataset makes no inference
\* call, computes no score and writes no file; it goes on until it raises
\* ValueError at the dispatch, right after the evaluator was built; a run
\* without a name returns before any data is loaded or the model built.
C19_UnsupportedNameFailsAtDispatch ==
    /\ (ev.has_name /\ ev.name \notin SupportedNames) =>
          /\ InferenceEvents = {} /\ ScoreEvents = {} /\ WriteEvents = {}
          /\ ev.files = {} /\ ev.scores = <<>> /\ ev.mode = "none"
          /\ ev.pc \in {"start", "load_data", "build_model", "build_evaluator",
                        "inference", "failed"}
          /\ ev.pc = "failed" =>
                /\ ev.error = "ValueError"
                /\ ev.evaluator
                /\ ev.events[Len(ev.events)] = "load_checkpoint"
          /\ ev.pc # "failed" => ENABLED NextEval
    /\ (ev.pc # "idle" /\ ~ev.has_name) =>
          /\ ev.pc \in {"start", "returned"}
          /\ ~ev.dataset /\ ~ev.loader /\ ~ev.model /\ ~ev.evaluator
          /\ ev.events = <<>> /\ ev.files = {}

\* A run named BSD68, which line 40 gave a loader, has raised at the
\* dispatch.
C19_Witness ==
    /\ ev.pc = "failed" /\ ev.name = "BSD68"
    /\ ev.error = "ValueError"
    /\ ev.loader /\ ev.evaluator
    /\ ev.files = {}

----------------------------------------------------------------------------
(* Properties of fft_conv's padding and crop *)

\* The padding per side the call asks for.
FcPadding == IF fc_args.padding.tag = "same" THEN FcK \div 2 ELSE FcPad

\* Number of indices in range(0, stop, step).
CeilDiv(a, b) == (a + b - 1) \div b

C17_SamePaddingIgnoresStride ==
    (fc_ret.status = "ok" /\ FcArgsUsable /\ fc_args.padding = SameArg) =>
        /\ fc_ret.sizes.signal_size = FcN + 2 * (FcK \div 2)
        /\ FcStride = 1 => \A o \in 1..FcCout : Len(fc_ret.out[o]) = FcN
        /\ (FcStride > 1 /\ FcK % 2 = 1) =>
              \A o \in 1..FcCout : Len(fc_ret.out[o]) = CeilDiv(FcN, FcStride)

\* A "same" call with stride 2 and a three-tap kernel on three samples has
\* returned two samples.
C17_Witness ==
    /\ fc_ret.status = "ok" /\ fc_args.padding = SameArg
    /\ FcN = 3 /\ FcK = 3 /\ FcStride = 2
    /\ fc_ret.sizes.signal_size = 5
    /\ Len(fc_ret.out[1]) = 2

----------------------------------------------------------------------------
(* Properties of ResidualUnit and ResidualBlock *)

\* The units that have run so far.
UnitsRun == {ru.units[j] : j \in 1..Len(ru.units)}

\* A unit whose own batch norm accepted its input.
UnitEntered(u) == u.ffc \/ u.input.ch = u.cin

\* C18 as stated: every unit that runs takes the projection exactly when
\* its channel count changes or it downsamples and its own input otherwise,
\* and every unit after the first of a block takes its own input.
C18_ProjectionIffChangeOrDownsample ==
    \A j \in 1..Len(ru.units) :
        LET u == ru.units[j] IN
        /\ u.kind = "projection" <=> (u.cin # u.cout \/ u.downsample)
        /\ (u.kind = "identity" /\ UnitEntered(u)) => u.shortcut = Ok(u.input)
        /\ j > 1 => /\ u.cin = u.cout /\ ~u.downsample
                    /\ u.kind = "identity"

\* C18 amended: the same, for units built without FFC; a unit built with
\* FFC always takes the output of conv_shortcut.
C18_ProjectionIffChangeOrDownsample_NoFfc ==
    \A j \in 1..Len(ru.units) :
        LET u == ru.units[j] IN
        /\ j > 1 => u.cin = u.cout /\ ~u.downsample
        /\ ~u.ffc =>
              /\ u.kind = "projection" <=> (u.cin # u.cout \/ u.downsample)
              /\ (u.kind = "identity" /\ UnitEntered(u)) => u.shortcut = Ok(u.input)
              /\ j > 1 => u.kind = "identity"
        /\ u.ffc => u.kind = "projection"

\* A block of two units without FFC that changes channels and downsamples
\* has run both: the first took the projection, the second its own input.
C18_Witness ==
    /\ ru.pc = "done" /\ ~ru.ffc /\ ru.downsample /\ ru.cin # ru.cout
    /\ Len(ru.units) = 2
    /\ ru.units[1].kind = "projection"
    /\ ru.units[1].shortcut.ok /\ ru.units[1].shortcut.t # ru.units[1].input
    /\ ru.units[2].kind = "identity"
    /\ ru.units[2].shortcut = Ok(ru.units[2].input)

\* C20: in a downsampling unit without FFC and with an odd kernel size,
\* whose input has its channel count and at least 2 samples on every axis,
\* the main path and the projection shortcut have the same spatial shape
\* and the unit returns their sum in that shape.
C20_DownsamplingPathsAgree ==
    \A u \in UnitsRun :
        (/\ u.downsample /\ ~u.ffc /\ u.input.ch = u.cin
         /\ ru.k % 2 = 1
         /\ \A a \in 1..Len(u.input.shape) : u.input.shape[a] >= 2) =>
            /\ u.main.ok /\ u.shortcut.ok
            /\ u.main.t.shape = u.shortcut.t.shape
            /\ u.out.ok /\ u.out.t.shape = u.main.t.shape

----------------------------------------------------------------------------
(* Properties of the channel counts in UNet.forward *)

\* C21: in a forward call of a constructed UNet the tensor reaching the
\* bottleneck, each upsampling block, each fusion convolution and each
\* decoder block has the in_channels that stage was built with, and the
\* returned tensor has base_channels channels.
C21_ChannelsMatchEveryStage ==
    /\ fw.pc = "bottom" => fw.x.ch = un_mod.bottom_block[1].cin
    /\ fw.pc = "decoder" => fw.x.ch = un_mod.upsampling_blocks[fw.i].cin
    /\ \A j \in 1..Len(fw.fused) :
          LET e == fw.fused[j]
              extra == un_mod.conv_after_upsample_blocks[j]
          IN /\ (e.fused_ok /\ extra.kind = "conv") => e.fused_ch = extra.cin
             /\ e.extra_ok => e.extra_ch = un_mod.decoder_blocks[j].cin
    /\ fw.pc = "done" => fw.x.ch = un_cfg.base_channels

----------------------------------------------------------------------------
(* Properties of the loader and the dispatch in evaluate.py *)

\* The dispatch has been taken: a branch was entered or it raised.
Dispatched ==
    \/ ev.mode # "none"
    \/ ev.pc = "failed" /\ ev.mode = "none" /\ ev.evaluator

\* C22: in every run that reaches the dispatch, a loader was created if
\* and only if the batched branch is entered: no run with a loader is
\* rejected as unsupported, and the batched branch never runs without one.
C22_LoaderIffBatchedInference ==
    Dispatched =>
        /\ ev.loader <=> ev.mode = "batched_inference"
        /\ (ev.pc = "failed" /\ ev.mode = "none") => ~ev.loader
        /\ ev.mode = "batched_inference" => ev.loader /\ ev.dataset

----------------------------------------------------------------------------
(* Properties of center_crop *)

\* C23: along every axis of length d the returned crop has exactly
\* min(d, size) elements, they are consecutive elements of the axis, none
\* lies outside it, and the centre d // 2 is among them.
C23_CropHasMinOfSizeAndLength ==
    ut.pc = "returned" =>
        \A a \in 1..Len(ut.shape) :
            LET d == ut.shape[a]
                idx == ut.out[a]
            IN /\ Len(idx) = Min(d, ut.size)
               /\ \A j \in 1..Len(idx) : idx[j] \in 0..(d - 1)
               /\ \A j \in 1..(Len(idx) - 1) : idx[j + 1] = idx[j] + 1
               /\ \E j \in 1..Len(idx) : idx[j] = d \div 2

====
